---- MODULE Spec2Model ----
(***************************************************************************)
(* A model of lucaludwig/crypto_engine: the scoring engines                *)
(* (src/analyzer.py, src/enhanced_analyzer.py) and the backtester          *)
(* (src/backtester.py).                                                    *)
(*                                                                         *)
(* Numbers.  The program computes in double precision; the model computes  *)
(* the same expressions exactly, over integers:                            *)
(*   - percentages (percent_change_*, volume_change_24h) are whole         *)
(*     percents, money is whole dollars;                                   *)
(*   - every sub-score is carried times 60 (so that x1.3, x1.15, x0.6 and  *)
(*     the /6 of the volatility score stay whole numbers);                 *)
(*   - a composite score is carried times 6000 (weights in hundredths),    *)
(*     an enhanced composite score times 6000000 (penalty in thousandths). *)
(***************************************************************************)
EXTENDS Integers, Sequences, FiniteSets, TLC

VARIABLES
    engine,      \* which analyzer object was constructed: "legacy" | "enhanced"
    coins_data,  \* self.coins_data: the raw records handed to the constructor
    df,          \* self.df: the rows of the DataFrame, in order
    btc_data,    \* EnhancedCryptoAnalyzer.btc_data
    scored,      \* TRUE once calculate_scores / calculate_comprehensive_scores ran
    call,        \* the last ranking query: [op, category, n], or NoCall
    result,      \* what that query returned: a sequence of coin_info records
    raised       \* TRUE when that query ended in an exception

avars == <<engine, coins_data, df, btc_data, scored, call, result, raised>>

VARIABLES
    probe,       \* sub-scores and wash confidences handed to the composite formulas
    composite    \* the composite scores computed from probe, or NoneRec

cvars == <<probe, composite>>

VARIABLES
    trades,          \* the Trade objects, in the order of the list that holds them
    recommendations, \* the candidates given to simulate_recommendation_strategy
    metrics,         \* the metrics of the BacktestResult built from trades, or NoneRec
    failed           \* the exception the last operation of the backtester raised, or ""

tvars == <<trades, recommendations, metrics, failed>>

VARIABLES
    num_simulations,   \* the number of runs asked of run_monte_carlo_simulation
    results,           \* its list `results`: one record of five metrics per run
    run_trades,        \* history: the list of trades each run built, in run order
    monte_carlo_stats  \* the summary it returns, or NoneRec

mvars == <<num_simulations, results, run_trades, monte_carlo_stats>>

VARIABLES
    arguments,   \* the arguments of a calculator called on its own, or NoneRec
    returned     \* what that call returned, as <<value, ...>>, or NoneRec

pvars == <<arguments, returned>>

vars == <<avars, cvars, tvars, mvars, pvars>>

None == "None"
NoneRec == <<>>
NoCall == [op |-> "none", category |-> "", n |-> 0]

\* ---------------------------------------------------------------- bounds
MaxBatch == 2
MaxN == 2

\* ------------------------------------------------------------- helpers
Abs(x) == IF x < 0 THEN -x ELSE x
Min(a, b) == IF a <= b THEN a ELSE b
Max(a, b) == IF a >= b THEN a ELSE b

\* dict.get(key, default)
Get(d, key, default) == IF key \in DOMAIN d THEN d[key] ELSE default

\* str.lower() on a name held as a sequence of one-character strings
LowerChar(c) ==
    CASE c = "A" -> "a" [] c = "B" -> "b" [] c = "C" -> "c" [] c = "D" -> "d"
      [] c = "E" -> "e" [] c = "H" -> "h" [] c = "I" -> "i" [] c = "L" -> "l"
      [] c = "N" -> "n" [] c = "O" -> "o" [] c = "P" -> "p" [] c = "R" -> "r"
      [] c = "S" -> "s" [] c = "T" -> "t" [] c = "U" -> "u"
      [] OTHER -> c
Lower(s) == [i \in 1..Len(s) |-> LowerChar(s[i])]

\* ------------------------------------------------- program constants
MICRO_CAP == 50000000
SMALL_CAP == 250000000
MID_CAP == 2000000000
MIN_MARKET_CAP == 100000
FUTURES_MIN_MARKET_CAP == 100000000
FUTURES_MIN_VOLUME == 10000000
WASH_SAFE_CONFIDENCE == 30

\* the stablecoin names of the two _prepare_dataframe methods
LegacyStablecoins ==
    { <<"t","e","t","h","e","r">>, <<"u","s","d"," ","c","o","i","n">>,
      <<"b","i","n","a","n","c","e"," ","u","s","d">>, <<"d","a","i">> }
EnhancedStablecoins ==
    LegacyStablecoins \cup { <<"u","s","d","c">>, <<"u","s","d","t">>, <<"b","u","s","d">> }

\* ------------------------------------------- Market Record Normalizer
\* A raw record is what the CoinMarketCap client hands over: a function from
\* field names to values.  Its "quote" field stands for quote['USD'].  A
\* platform of None is the empty function <<>>, which is falsy like None and {}.
Truthy(d) == DOMAIN d # {}

Quote(coin) == Get(coin, "quote", NoneRec)
TokenAddress(coin) ==
    LET platform == Get(coin, "platform", NoneRec)
    IN  IF Truthy(platform) THEN Get(platform, "token_address", "") ELSE ""
PlatformName(coin) ==
    LET platform == Get(coin, "platform", NoneRec)
    IN  IF Truthy(platform) THEN Get(platform, "name", "") ELSE ""

\* (mutant) the name compared as it is written
Skipped_CaseSensitive(coin, stablecoins) ==
    \/ ~Truthy(Quote(coin))
    \/ Get(coin, "name", <<>>) \in stablecoins
    \/ Get(Quote(coin), "volume_24h", 0) = 0
    \/ Get(Quote(coin), "market_cap", 0) < MIN_MARKET_CAP

\* (mutant) a normalizer without the floor on the market cap
Skipped_NoFloor(coin, stablecoins) ==
    \/ ~Truthy(Quote(coin))
    \/ Lower(Get(coin, "name", <<>>)) \in stablecoins
    \/ Get(Quote(coin), "volume_24h", 0) = 0

\* the two `continue` conditions of _prepare_dataframe
Skipped(coin, stablecoins) ==
    \/ ~Truthy(Quote(coin))
    \/ Lower(Get(coin, "name", <<>>)) \in stablecoins
    \/ Get(Quote(coin), "volume_24h", 0) = 0
    \/ Get(Quote(coin), "market_cap", 0) < MIN_MARKET_CAP

LegacyRecord(coin) ==
    LET quote == Quote(coin)
    IN  [ symbol            |-> Get(coin, "symbol", None),
          name              |-> Get(coin, "name", None),
          cmc_id            |-> Get(coin, "id", 0),
          platform          |-> PlatformName(coin),
          contract_address  |-> TokenAddress(coin),
          on_binance        |-> "binance-listing" \in Get(coin, "tags", {}),
          price             |-> Get(quote, "price", 0),
          market_cap        |-> Get(quote, "market_cap", 0),
          volume_24h        |-> Get(quote, "volume_24h", 0),
          percent_change_1h |-> Get(quote, "percent_change_1h", 0),
          percent_change_24h |-> Get(quote, "percent_change_24h", 0),
          percent_change_7d |-> Get(quote, "percent_change_7d", 0),
          volume_change_24h |-> Get(quote, "volume_change_24h", 0) ]

\* (mutant) the futures flag without its volume condition
HasFutures_CapOnly(market_cap, volume_24h) == market_cap > FUTURES_MIN_MARKET_CAP

HasFutures(market_cap, volume_24h) ==
    market_cap > FUTURES_MIN_MARKET_CAP /\ volume_24h > FUTURES_MIN_VOLUME

EnhancedRecord(coin) ==
    LET quote == Quote(coin)
        market_cap == Get(quote, "market_cap", 0)
        volume_24h == Get(quote, "volume_24h", 0)
    IN  [ symbol            |-> Get(coin, "symbol", None),
          name              |-> Get(coin, "name", None),
          cmc_id            |-> Get(coin, "id", 0),
          platform          |-> PlatformName(coin),
          contract_address  |-> TokenAddress(coin),
          on_binance        |-> "binance-listing" \in Get(coin, "tags", {}),
          has_futures       |-> HasFutures(market_cap, volume_24h),
          price             |-> Get(quote, "price", 0),
          market_cap        |-> market_cap,
          volume_24h        |-> volume_24h,
          percent_change_1h |-> Get(quote, "percent_change_1h", 0),
          percent_change_24h |-> Get(quote, "percent_change_24h", 0),
          percent_change_7d |-> Get(quote, "percent_change_7d", 0),
          volume_change_24h |-> Get(quote, "volume_change_24h", 0) ]

RECURSIVE LegacyPrepareDataframe(_)
LegacyPrepareDataframe(coins) ==
    IF coins = <<>> THEN <<>>
    ELSE IF Skipped(Head(coins), LegacyStablecoins)
         THEN LegacyPrepareDataframe(Tail(coins))
         ELSE <<LegacyRecord(Head(coins))>> \o LegacyPrepareDataframe(Tail(coins))

RECURSIVE EnhancedPrepareDataframe(_)
EnhancedPrepareDataframe(coins) ==
    IF coins = <<>> THEN <<>>
    ELSE IF Skipped(Head(coins), EnhancedStablecoins)
         THEN EnhancedPrepareDataframe(Tail(coins))
         ELSE <<EnhancedRecord(Head(coins))>> \o EnhancedPrepareDataframe(Tail(coins))

\* ------------------------------------------------ Indicator calculators
\* volume_24h / market_cap >= num / den, without leaving 32 bits
RatioAtLeast(volume, cap, num, den) ==
    volume >= (cap \div den) * num + (((cap % den) * num + den - 1) \div den)

\* 60 x the volatility score
VolatilityScore(row) ==
    LET sum == Abs(row.percent_change_1h) * 3 + Abs(row.percent_change_24h) * 2
               + Abs(row.percent_change_7d)
    IN  IF row.percent_change_24h > 0 /\ row.percent_change_7d > 0
        THEN sum * 13 ELSE sum * 10

\* (mutant) the tiers with their upper ends included
MarketCapRiskScore_Inclusive(market_cap) ==
    IF market_cap <= MICRO_CAP THEN 100 * 60
    ELSE IF market_cap <= SMALL_CAP THEN 70 * 60
    ELSE IF market_cap <= MID_CAP THEN 40 * 60
    ELSE 10 * 60

\* 60 x the market-cap risk score
MarketCapRiskScore(market_cap) ==
    IF market_cap < MICRO_CAP THEN 100 * 60
    ELSE IF market_cap < SMALL_CAP THEN 70 * 60
    ELSE IF market_cap < MID_CAP THEN 40 * 60
    ELSE 10 * 60

VolumeBaseScore(row) ==
    IF row.market_cap > 0 /\ RatioAtLeast(row.volume_24h, row.market_cap, 3, 20) THEN 100
    ELSE IF row.market_cap > 0 /\ RatioAtLeast(row.volume_24h, row.market_cap, 1, 20) THEN 60
    ELSE 30

\* 60 x the volume-activity score of CryptoAnalyzer
LegacyVolumeActivityScore(row) ==
    LET volume_change == row.volume_change_24h
        mult == IF volume_change > 100 THEN 120
                ELSE IF volume_change > 50 THEN 96
                ELSE IF volume_change > 20 THEN 78
                ELSE IF volume_change > 10 THEN 69
                ELSE IF volume_change < -40 THEN 36
                ELSE 60
    IN  Min(VolumeBaseScore(row) * mult, 150 * 60)

\* 60 x the volume-activity score of EnhancedCryptoAnalyzer
EnhancedVolumeActivityScore(row) ==
    LET volume_change == row.volume_change_24h
        mult == IF volume_change > 100 THEN 120
                ELSE IF volume_change > 50 THEN 96
                ELSE IF volume_change > 20 THEN 78
                ELSE IF volume_change < -40 THEN 36
                ELSE 60
    IN  Min(VolumeBaseScore(row) * mult, 150 * 60)

\* 60 x the unusual-volume score
UnusualVolumeScore(row) ==
    LET volume_change == row.volume_change_24h
        price_change == row.percent_change_24h
        first == IF volume_change > 200 /\ price_change > 10 THEN 100
                 ELSE IF volume_change > 200 /\ price_change > 0 THEN 60
                 ELSE IF volume_change > 200 /\ price_change < 0 THEN 20
                 ELSE IF volume_change > 100 /\ price_change > 10 THEN 80
                 ELSE IF volume_change > 50 /\ price_change > 10 THEN 60
                 ELSE IF volume_change > 50 /\ price_change > 5 THEN 50
                 ELSE IF volume_change > 10 /\ price_change > 10 THEN 40
                 ELSE 0
        second == IF volume_change < -30 /\ price_change > 0 THEN -30
                  ELSE IF volume_change < -50 THEN -50
                  ELSE 0
    IN  60 * Max(0, Min(first + second, 100))

\* 60 x the RSI-like score
RsiLikeScore(row) ==
    LET d7 == row.percent_change_7d
        h24 == row.percent_change_24h
        a == IF d7 < -15 /\ h24 > 5 THEN 50
             ELSE IF d7 < -10 /\ h24 > 0 THEN 30 ELSE 0
        b == IF d7 < 0 /\ h24 > 10 THEN 20 ELSE 0
        c == IF h24 > 50 \/ d7 > 100 THEN -30 ELSE 0
    IN  60 * Max(0, Min(a + b + c, 100))

\* 60 x the trend-strength score.  daily_rate > weekly_rate * 1.5 is
\* 24h > 7d/7 * 1.5, that is 14 * 24h > 3 * 7d.
TrendStrengthScore(row) ==
    LET d7 == row.percent_change_7d
        h24 == row.percent_change_24h
        a == IF h24 > 0 /\ d7 > 0
             THEN 50 + (IF 14 * h24 > 3 * d7 THEN 30
                        ELSE IF 7 * h24 > d7 THEN 20 ELSE 0)
             ELSE IF h24 > 10 /\ d7 < 0 THEN 10
             ELSE 0
        b == IF h24 > 15 THEN 15 ELSE IF h24 > 8 THEN 10 ELSE 0
    IN  60 * Min(a + b, 100)

\* 60 x the momentum score of CryptoAnalyzer
LegacyMomentumScore(row) ==
    LET h1 == row.percent_change_1h
        h24 == row.percent_change_24h
        d7 == row.percent_change_7d
        a == IF h1 > 3 /\ h24 > 5 THEN 15
             ELSE IF h1 < -3 /\ h24 > 10 THEN 10 ELSE 0
        b == IF h24 > 20 THEN 50 ELSE IF h24 > 10 THEN 40 ELSE IF h24 > 5 THEN 25
             ELSE IF h24 > 2 THEN 10 ELSE IF h24 < -10 THEN -40 ELSE 0
        c == IF d7 > 20 /\ h24 > 5 THEN 35
             ELSE IF d7 > 0 /\ h24 > 10 THEN 20
             ELSE IF d7 < -20 THEN -30 ELSE 0
    IN  60 * Max(0, Min(a + b + c, 100))

\* 60 x the momentum score of EnhancedCryptoAnalyzer
EnhancedMomentumScore(row) ==
    LET h1 == row.percent_change_1h
        h24 == row.percent_change_24h
        d7 == row.percent_change_7d
        a == IF h1 > 3 /\ h24 > 5 THEN 15 ELSE 0
        b == IF h24 > 20 THEN 50 ELSE IF h24 > 10 THEN 40 ELSE IF h24 > 5 THEN 25
             ELSE IF h24 < -10 THEN -40 ELSE 0
        c == IF d7 > 20 /\ h24 > 5 THEN 35
             ELSE IF d7 < -20 THEN -30 ELSE 0
    IN  60 * Max(0, Min(a + b + c, 100))

\* 60 x the RSI score
RsiScore(row) ==
    LET m == row.percent_change_24h
        rsi == IF m > 20 THEN 75 ELSE IF m > 10 THEN 65 ELSE IF m > 5 THEN 55
               ELSE IF m > -5 THEN 50 ELSE IF m > -10 THEN 40
               ELSE IF m > -20 THEN 30 ELSE 25
        score == IF 30 <= rsi /\ rsi <= 45 THEN 80
                 ELSE IF 45 < rsi /\ rsi <= 55 THEN 50
                 ELSE IF 55 < rsi /\ rsi <= 65 THEN 60
                 ELSE IF rsi > 70 THEN 20
                 ELSE IF rsi < 30 THEN 40
                 ELSE 50
    IN  60 * score

\* 60 x the MACD score.  macd = 24h - 7d/7, so macd > k is 7*24h - 7d > 7*k.
MacdScore(row) ==
    LET macd7 == 7 * row.percent_change_24h - row.percent_change_7d
        score == IF macd7 > 35 THEN 80 ELSE IF macd7 > 14 THEN 65
                 ELSE IF macd7 > 0 THEN 55 ELSE IF macd7 > -14 THEN 45
                 ELSE IF macd7 > -35 THEN 30 ELSE 20
        bonus == IF row.percent_change_1h > 0 /\ macd7 > 0 THEN 10 ELSE 0
    IN  60 * Min(score + bonus, 100)

\* 60 x the Bollinger score.  volatility = |24h| + |7d|/7, compared times 7.
BollingerScore(row) ==
    LET volatility7 == 7 * Abs(row.percent_change_24h) + Abs(row.percent_change_7d)
        h24 == row.percent_change_24h
    IN  60 * (IF volatility7 > 105 /\ h24 > 5 THEN 75
              ELSE IF volatility7 > 70 /\ h24 > 0 THEN 60
              ELSE IF volatility7 < 21 THEN 40
              ELSE 50)

\* (mutant) the confidence as the sum of the flags' weights
DetectWashTrading_Unclamped(row) ==
    LET vol_change == row.volume_change_24h
        price_change == Abs(row.percent_change_24h)
        flag1 == vol_change > 500 /\ price_change < 2
        flag2 == row.volume_24h - row.market_cap > row.market_cap
        flag3 == vol_change > 200 /\ price_change < 5 /\ row.percent_change_7d < 10
        flag4 == row.market_cap < 5000000 /\ row.volume_24h > row.market_cap * 5
        confidence == (IF flag1 THEN 40 ELSE 0) + (IF flag2 THEN 30 ELSE 0)
                      + (IF flag3 THEN 20 ELSE 0) + (IF flag4 THEN 30 ELSE 0)
    IN  <<flag1 \/ flag2 \/ flag3 \/ flag4, confidence>>

\* (mutant) a detector whose third flag adds confidence without marking the
\* row suspicious
DetectWashTrading_QuietFlag(row) ==
    LET vol_change == row.volume_change_24h
        price_change == Abs(row.percent_change_24h)
        flag1 == vol_change > 500 /\ price_change < 2
        flag2 == row.volume_24h - row.market_cap > row.market_cap
        flag3 == vol_change > 200 /\ price_change < 5 /\ row.percent_change_7d < 10
        flag4 == row.market_cap < 5000000 /\ row.volume_24h > row.market_cap * 5
        confidence == (IF flag1 THEN 40 ELSE 0) + (IF flag2 THEN 30 ELSE 0)
                      + (IF flag3 THEN 20 ELSE 0) + (IF flag4 THEN 30 ELSE 0)
    IN  <<flag1 \/ flag2 \/ flag4, Min(confidence, 100)>>

\* _detect_wash_trading: <<suspicious, confidence>>
DetectWashTrading(row) ==
    LET vol_change == row.volume_change_24h
        price_change == Abs(row.percent_change_24h)
        flag1 == vol_change > 500 /\ price_change < 2
        flag2 == row.volume_24h - row.market_cap > row.market_cap
        flag3 == vol_change > 200 /\ price_change < 5 /\ row.percent_change_7d < 10
        flag4 == row.market_cap < 5000000 /\ row.volume_24h > row.market_cap * 5
        confidence == (IF flag1 THEN 40 ELSE 0) + (IF flag2 THEN 30 ELSE 0)
                      + (IF flag3 THEN 20 ELSE 0) + (IF flag4 THEN 30 ELSE 0)
    IN  <<flag1 \/ flag2 \/ flag3 \/ flag4, Min(confidence, 100)>>

\* 60 x the market-correlation score; btc is self.btc_data
MarketCorrelationScore(row, btc) ==
    IF ~Truthy(btc) THEN 50 * 60
    ELSE LET btc_24h == btc.percent_change_24h
             coin_24h == row.percent_change_24h
         IN  60 * (IF btc_24h > 3 /\ 2 * coin_24h > 3 * btc_24h THEN 80
                   ELSE IF -2 < btc_24h /\ btc_24h < 3 /\ coin_24h > 10 THEN 70
                   ELSE IF btc_24h < -5 /\ coin_24h > 5 THEN 20
                   ELSE IF btc_24h < -5 /\ coin_24h > btc_24h THEN 60
                   ELSE 50)

\* (mutant) the full Kelly fraction capped at 0.10 (kelly_capped)
KellyPositionSize_FullKelly(win_rate, avg_win, avg_loss) ==
    IF win_rate <= 0 \/ win_rate >= 1000 \/ avg_win <= 0 \/ avg_loss <= 0 THEN 0
    ELSE LET num == win_rate * avg_win - (1000 - win_rate) * avg_loss
         IN  IF num <= 0 THEN 0
             ELSE IF num >= 100 * avg_win THEN 100
             ELSE num \div avg_win

\* _calculate_kelly_position_size(win_rate, avg_win, avg_loss), every
\* argument and the result in thousandths.  kelly = (w*aw - (1-w)*al)/aw,
\* moderate = kelly/2, result = max(0, min(moderate, 0.075)); the
\* comparison moderate < 0.075 is made on the fraction, the result floored.
KellyPositionSize(win_rate, avg_win, avg_loss) ==
    IF win_rate <= 0 \/ win_rate >= 1000 \/ avg_win <= 0 \/ avg_loss <= 0 THEN 0
    ELSE LET num == win_rate * avg_win - (1000 - win_rate) * avg_loss
             den == 2 * avg_win
         IN  IF num <= 0 THEN 0
             ELSE IF num >= 75 * den THEN 75
             ELSE num \div den

\* ------------------------------------------------------ Scoring Engine
\* (mutant) the legacy weights with 0.30 for the unusual-volume score
LegacyCompositeScore_HeavyVolume(unusual_volume, momentum, trend_strength, volume_activity, market_cap_risk, volatility, rsi_like) ==
    unusual_volume * 30 + momentum * 20 + trend_strength * 15 + volume_activity * 15
    + market_cap_risk * 15 + volatility * 5 + rsi_like * 5

\* 6000 x the composite score of CryptoAnalyzer.calculate_scores
\* (every argument is 60 x a sub-score, every weight is in hundredths)
LegacyCompositeScore(unusual_volume, momentum, trend_strength, volume_activity, market_cap_risk, volatility, rsi_like) ==
    unusual_volume * 25 + momentum * 20 + trend_strength * 15 + volume_activity * 15
    + market_cap_risk * 15 + volatility * 5 + rsi_like * 5

\* (mutant) the wash penalty added instead of subtracted
EnhancedCompositeScore_Bonus(rsi, macd, bollinger, market_correlation, momentum, volume_activity, market_cap_risk, volatility, confidence) ==
    (rsi * 15 + macd * 15 + bollinger * 10 + market_correlation * 15 + momentum * 15
     + volume_activity * 15 + market_cap_risk * 10 + volatility * 5)
    * (1000 + confidence * 7)

\* 6000000 x the enhanced composite score of calculate_comprehensive_scores:
\* the weighted sum times (1 - wash_penalty * 0.7), wash_penalty = confidence/100
EnhancedCompositeScore(rsi, macd, bollinger, market_correlation, momentum, volume_activity, market_cap_risk, volatility, confidence) ==
    (rsi * 15 + macd * 15 + bollinger * 10 + market_correlation * 15 + momentum * 15
     + volume_activity * 15 + market_cap_risk * 10 + volatility * 5)
    * (1000 - confidence * 7)

LegacyScoreRow(row) ==
    LET unusual == UnusualVolumeScore(row)
        momentum == LegacyMomentumScore(row)
        trend == TrendStrengthScore(row)
        activity == LegacyVolumeActivityScore(row)
        risk == MarketCapRiskScore(row.market_cap)
        volatility == VolatilityScore(row)
        rsi_like == RsiLikeScore(row)
    IN  [ volatility_score      |-> volatility,
                 market_cap_risk_score |-> risk,
                 volume_activity_score |-> activity,
                 unusual_volume_score  |-> unusual,
                 momentum_score        |-> momentum,
                 trend_strength_score  |-> trend,
                 rsi_like_score        |-> rsi_like,
                 composite_score       |->
                     LegacyCompositeScore(unusual, momentum, trend, activity, risk,
                                          volatility, rsi_like) ] @@ row

EnhancedScoreRow(row, btc) ==
    LET rsi == RsiScore(row)
        macd == MacdScore(row)
        bollinger == BollingerScore(row)
        correlation == MarketCorrelationScore(row, btc)
        wash == DetectWashTrading(row)
        volatility == VolatilityScore(row)
        risk == MarketCapRiskScore(row.market_cap)
        activity == EnhancedVolumeActivityScore(row)
        momentum == EnhancedMomentumScore(row)
    IN  [ rsi_score                |-> rsi,
                 macd_score               |-> macd,
                 bollinger_score          |-> bollinger,
                 market_correlation_score |-> correlation,
                 wash_trading_suspicious  |-> wash[1],
                 wash_trading_confidence  |-> wash[2],
                 volatility_score         |-> volatility,
                 market_cap_risk_score    |-> risk,
                 volume_activity_score    |-> activity,
                 momentum_score           |-> momentum,
                 enhanced_composite_score |->
                     EnhancedCompositeScore(rsi, macd, bollinger, correlation, momentum,
                                            activity, risk, volatility, wash[2]),
                 kelly_position_size      |-> KellyPositionSize(600, 1500, 1000) ] @@ row

\* (mutant) head(n) in place of nlargest(n, col)
NLargest_Head(rows, n, col) ==
    IF n <= 0 THEN <<>> ELSE SubSeq(rows, 1, Min(n, Len(rows)))

\* DataFrame.nlargest(n, col): the n rows of largest col, largest first, equal
\* values in their original order; nothing for n <= 0
RECURSIVE NLargest(_, _, _)
NLargest(rows, n, col) ==
    IF n <= 0 \/ rows = <<>> THEN <<>>
    ELSE LET i == CHOOSE i \in 1..Len(rows) :
                     /\ \A j \in 1..Len(rows) : rows[j][col] <= rows[i][col]
                     /\ \A j \in 1..(i - 1) : rows[j][col] < rows[i][col]
             rest == [k \in 1..(Len(rows) - 1) |-> IF k < i THEN rows[k] ELSE rows[k + 1]]
         IN  <<rows[i]>> \o NLargest(rest, n - 1, col)

LegacyCoinInfo(row) ==
    [ name                 |-> row.name,
      symbol               |-> row.symbol,
      cmc_id               |-> row.cmc_id,
      platform             |-> row.platform,
      contract_address     |-> row.contract_address,
      on_binance           |-> row.on_binance,
      price                |-> row.price,
      market_cap           |-> row.market_cap,
      volume_24h           |-> row.volume_24h,
      volume_change_24h    |-> row.volume_change_24h,
      change_1h            |-> row.percent_change_1h,
      change_24h           |-> row.percent_change_24h,
      change_7d            |-> row.percent_change_7d,
      composite_score      |-> row.composite_score,
      volatility_score     |-> row.volatility_score,
      risk_score           |-> row.market_cap_risk_score,
      activity_score       |-> row.volume_activity_score,
      unusual_volume_score |-> row.unusual_volume_score,
      momentum_score       |-> row.momentum_score,
      trend_strength_score |-> row.trend_strength_score,
      rsi_like_score       |-> row.rsi_like_score ]

EnhancedCoinInfo(row) ==
    [ name                     |-> row.name,
      symbol                   |-> row.symbol,
      cmc_id                   |-> row.cmc_id,
      platform                 |-> row.platform,
      contract_address         |-> row.contract_address,
      has_futures              |-> row.has_futures,
      price                    |-> row.price,
      market_cap               |-> row.market_cap,
      volume_24h               |-> row.volume_24h,
      volume_change_24h        |-> row.volume_change_24h,
      change_1h                |-> row.percent_change_1h,
      change_24h               |-> row.percent_change_24h,
      change_7d                |-> row.percent_change_7d,
      enhanced_score           |-> row.enhanced_composite_score,
      rsi_score                |-> row.rsi_score,
      macd_score               |-> row.macd_score,
      bollinger_score          |-> row.bollinger_score,
      market_correlation_score |-> row.market_correlation_score,
      wash_trading_suspicious  |-> row.wash_trading_suspicious,
      wash_trading_confidence  |-> row.wash_trading_confidence,
      kelly_position_size      |-> row.kelly_position_size,
      composite_score          |-> row.enhanced_composite_score,
      volatility_score         |-> row.volatility_score,
      risk_score               |-> row.market_cap_risk_score,
      activity_score           |-> row.volume_activity_score,
      momentum_score           |-> row.momentum_score ]

LegacyCoinInfos(rows) == [i \in 1..Len(rows) |-> LegacyCoinInfo(rows[i])]
EnhancedCoinInfos(rows) == [i \in 1..Len(rows) |-> EnhancedCoinInfo(rows[i])]

\* What a query hands back: the list it returns, or an exception.
Returned(list) == [value |-> list, raised |-> FALSE]
Raised == [value |-> <<>>, raised |-> TRUE]

\* (mutant) the safety filter keeping a confidence of exactly 30
SafeCoins_Keeps30(rows) ==
    SelectSeq(rows, LAMBDA r : r.wash_trading_suspicious = FALSE
                               \/ r.wash_trading_confidence <= WASH_SAFE_CONFIDENCE)

\* (mutant) queries without the safety pre-filter
SafeCoins_Unfiltered(rows) == rows

\* the safety pre-filter of the enhanced queries
SafeCoins(rows) ==
    SelectSeq(rows, LAMBDA r : r.wash_trading_suspicious = FALSE
                               \/ r.wash_trading_confidence < WASH_SAFE_CONFIDENCE)

\* the category filter of get_top_by_category, for a known category
CategoryFilter(rows, category) ==
    IF category = "spot"
    THEN SelectSeq(rows, LAMBDA r : r.on_binance = TRUE /\ r.contract_address = "")
    ELSE IF category = "futures"
    THEN SelectSeq(rows, LAMBDA r : r.has_futures = TRUE)
    ELSE SelectSeq(rows, LAMBDA r : r.contract_address # "")

\* (mutant) get_top_by_category without its final `else: return []`:
\* `filtered` is then unbound for a category that is none of the three
GetTopByCategory_NoElse(rows, category, n) ==
    IF rows = <<>> THEN Returned(<<>>)
    ELSE LET safe_coins == SafeCoins(rows)
         IN  IF safe_coins = <<>> THEN Returned(<<>>)
             ELSE IF category \notin {"spot", "futures", "web3"} THEN Raised
             ELSE LET filtered == CategoryFilter(safe_coins, category)
                  IN  IF filtered = <<>> THEN Returned(<<>>)
                      ELSE Returned(EnhancedCoinInfos(NLargest(filtered, n, "enhanced_composite_score")))

GetTopByCategory(rows, category, n) ==
    IF rows = <<>> THEN Returned(<<>>)
    ELSE LET safe_coins == SafeCoins(rows)
         IN  IF safe_coins = <<>> THEN Returned(<<>>)
             ELSE IF category \notin {"spot", "futures", "web3"} THEN Returned(<<>>)
             ELSE LET filtered == CategoryFilter(safe_coins, category)
                  IN  IF filtered = <<>> THEN Returned(<<>>)
                      ELSE Returned(EnhancedCoinInfos(NLargest(filtered, n, "enhanced_composite_score")))

GetTopSafeRecommendations(rows, n) ==
    IF rows = <<>> THEN Returned(<<>>)
    ELSE LET safe_coins == SafeCoins(rows)
         IN  IF safe_coins = <<>> THEN Returned(<<>>)
             ELSE Returned(EnhancedCoinInfos(NLargest(safe_coins, n, "enhanced_composite_score")))

GetTopHighRiskCoins(rows, n) ==
    IF rows = <<>> THEN Returned(<<>>)
    ELSE Returned(LegacyCoinInfos(NLargest(rows, n, "composite_score")))

GetTopBinanceSpotCoins(rows, n) ==
    IF rows = <<>> THEN Returned(<<>>)
    ELSE LET binance_coins == SelectSeq(rows, LAMBDA r : r.on_binance = TRUE)
         IN  IF binance_coins = <<>> THEN Returned(<<>>)
             ELSE Returned(LegacyCoinInfos(NLargest(binance_coins, n, "composite_score")))

GetTopBinanceWalletCoins(rows, n) ==
    IF rows = <<>> THEN Returned(<<>>)
    ELSE LET wallet_coins ==
                 SelectSeq(rows, LAMBDA r : r.contract_address # "" /\ r.on_binance = FALSE)
         IN  IF wallet_coins = <<>> THEN Returned(<<>>)
             ELSE Returned(LegacyCoinInfos(NLargest(wallet_coins, n, "composite_score")))

\* ------------------------------------------- the analyzers as a machine
\* The raw records a batch is drawn from: every combination of exchange
\* listing, token contract, 24h volume and 24h price change, plus a
\* stablecoin and a coin without volume.
Ethereum == [name |-> "Ethereum", token_address |-> "0xabc"]

RawCoin(name, tags, platform, volume_24h, change_24h) ==
    [ name     |-> name,
      symbol   |-> "ALT",
      tags     |-> tags,
      platform |-> platform,
      quote    |-> [ price              |-> 100,
                     market_cap         |-> 120000000,
                     volume_24h         |-> volume_24h,
                     percent_change_1h  |-> 0,
                     percent_change_24h |-> change_24h,
                     percent_change_7d  |-> 0,
                     volume_change_24h  |-> 250 ] ]

RawCoins ==
    { RawCoin(<<"A","l","p","h","a">>, tags, platform, volume, change) :
        tags \in {{}, {"binance-listing"}},
        platform \in {NoneRec, Ethereum},
        volume \in {8000000, 24000000, 300000000},
        change \in {1, 12} }
    \cup { RawCoin(<<"D","a","i">>, {"binance-listing"}, Ethereum, 24000000, 1),
           RawCoin(<<"A","l","p","h","a">>, {"binance-listing"}, NoneRec, 0, 12) }

\* a batch: the i-th raw record gets id i
Numbered(b) == [i \in 1..Len(b) |-> [id |-> i] @@ b[i]]

Categories == {"spot", "futures", "web3", "margin"}

\* EnhancedCryptoAnalyzer.__init__ runs _prepare_dataframe, which stores the
\* BTC row in self.btc_data, and then assigns self.btc_data = None.
PrepareBtcData(rows) ==
    IF \E i \in 1..Len(rows) : rows[i].symbol = "BTC"
    THEN rows[CHOOSE i \in 1..Len(rows) :
                  rows[i].symbol = "BTC" /\ \A j \in 1..(i - 1) : rows[j].symbol # "BTC"]
    ELSE NoneRec
EnhancedInitBtcData(rows) ==
    LET set_by_prepare == PrepareBtcData(rows) IN NoneRec

AInit ==
    /\ engine \in {"legacy", "enhanced"}
    /\ \E k \in 0..MaxBatch : \E b \in [1..k -> RawCoins] : coins_data = Numbered(b)
    /\ df = IF engine = "legacy" THEN LegacyPrepareDataframe(coins_data)
            ELSE EnhancedPrepareDataframe(coins_data)
    /\ btc_data = IF engine = "legacy" THEN NoneRec ELSE EnhancedInitBtcData(df)
    /\ scored = FALSE
    /\ call = NoCall
    /\ result = <<>>
    /\ raised = FALSE

\* CryptoAnalyzer.calculate_scores
CalculateScores ==
    /\ engine = "legacy"
    /\ call = NoCall
    /\ df' = IF df = <<>> THEN df ELSE [i \in 1..Len(df) |-> LegacyScoreRow(df[i])]
    /\ scored' = TRUE
    /\ UNCHANGED <<engine, coins_data, btc_data, call, result, raised>>

\* `row['volume_24h'] / row['market_cap']` of _detect_wash_trading has no
\* guard: ZeroDivisionError on a row whose market cap is 0
DetectWashTradingRaises(row) == row.market_cap = 0

\* the columns calculate_comprehensive_scores has assigned when the wash
\* detection starts
TechnicalScoreRow(row, btc) ==
    [ rsi_score                |-> RsiScore(row),
      macd_score               |-> MacdScore(row),
      bollinger_score          |-> BollingerScore(row),
      market_correlation_score |-> MarketCorrelationScore(row, btc) ] @@ row

\* EnhancedCryptoAnalyzer.calculate_comprehensive_scores
CalculateComprehensiveScores ==
    /\ engine = "enhanced"
    /\ call = NoCall
    /\ IF \E i \in 1..Len(df) : DetectWashTradingRaises(df[i])
       THEN /\ df' = [i \in 1..Len(df) |-> TechnicalScoreRow(df[i], btc_data)]
            /\ raised' = TRUE
            /\ UNCHANGED scored
       ELSE /\ df' = IF df = <<>> THEN df
                     ELSE [i \in 1..Len(df) |-> EnhancedScoreRow(df[i], btc_data)]
            /\ scored' = TRUE
            /\ UNCHANGED raised
    /\ UNCHANGED <<engine, coins_data, btc_data, call, result>>

\* A query over rows that calculate_* has not given their score columns ends
\* in a KeyError, unless the frame is empty.  A query reads self.df and
\* changes nothing, so what it returns does not depend on the queries made
\* before it: a run of the machine makes one query.
Answer(out) ==
    LET o == IF ~scored /\ df # <<>> THEN Raised ELSE out
    IN  /\ call = NoCall
        /\ result' = o.value
        /\ raised' = o.raised
        /\ UNCHANGED <<engine, coins_data, df, btc_data, scored>>

TopByCategory ==
    /\ engine = "enhanced"
    /\ \E category \in Categories, n \in 0..MaxN :
          /\ call' = [op |-> "get_top_by_category", category |-> category, n |-> n]
          /\ Answer(GetTopByCategory(df, category, n))

TopSafeRecommendations ==
    /\ engine = "enhanced"
    /\ \E n \in 0..MaxN :
          /\ call' = [op |-> "get_top_safe_recommendations", category |-> "", n |-> n]
          /\ Answer(GetTopSafeRecommendations(df, n))

TopHighRiskCoins ==
    /\ engine = "legacy"
    /\ \E n \in 0..MaxN :
          /\ call' = [op |-> "get_top_high_risk_coins", category |-> "", n |-> n]
          /\ Answer(GetTopHighRiskCoins(df, n))

TopBinanceSpotCoins ==
    /\ engine = "legacy"
    /\ \E n \in 0..MaxN :
          /\ call' = [op |-> "get_top_binance_spot_coins", category |-> "", n |-> n]
          /\ Answer(GetTopBinanceSpotCoins(df, n))

TopBinanceWalletCoins ==
    /\ engine = "legacy"
    /\ \E n \in 0..MaxN :
          /\ call' = [op |-> "get_top_binance_wallet_coins", category |-> "", n |-> n]
          /\ Answer(GetTopBinanceWalletCoins(df, n))

\* ----------------------------------------- the composite formulas alone
\* The two composite formulas, applied to sub-scores drawn from the ends of
\* their range (0 and 100, carried times 60) and, for the enhanced one, to
\* two rows of the same sub-scores and two wash confidences.
SubScores == {0, 100 * 60}
Confidences == {0, 20, 30, 50, 60, 100}

LegacyProbes ==
    [ kind : {"legacy"}, unusual_volume : SubScores, momentum : SubScores,
      trend_strength : SubScores, volume_activity : SubScores,
      market_cap_risk : SubScores, volatility : SubScores, rsi_like : SubScores ]
EnhancedProbes ==
    [ kind : {"enhanced"}, rsi : SubScores, macd : SubScores, bollinger : SubScores,
      market_correlation : SubScores, momentum : SubScores, volume_activity : SubScores,
      market_cap_risk : SubScores, volatility : SubScores,
      confidence : Confidences, other_confidence : Confidences ]

CInit ==
    /\ probe \in LegacyProbes \cup EnhancedProbes
    /\ composite = NoneRec

\* the composite_score column of calculate_scores, for one row
ComposeLegacy ==
    /\ probe.kind = "legacy"
    /\ composite = NoneRec
    /\ composite' = [ score |->
           LegacyCompositeScore(probe.unusual_volume, probe.momentum, probe.trend_strength,
                                probe.volume_activity, probe.market_cap_risk,
                                probe.volatility, probe.rsi_like) ]
    /\ UNCHANGED probe

EnhancedOf(p, confidence) ==
    EnhancedCompositeScore(p.rsi, p.macd, p.bollinger, p.market_correlation, p.momentum,
                           p.volume_activity, p.market_cap_risk, p.volatility, confidence)

\* the enhanced_composite_score column of calculate_comprehensive_scores, for
\* two rows
ComposeEnhanced ==
    /\ probe.kind = "enhanced"
    /\ composite = NoneRec
    /\ composite' = [ score |-> EnhancedOf(probe, probe.confidence),
                      other_score |-> EnhancedOf(probe, probe.other_confidence) ]
    /\ UNCHANGED probe

\* ------------------------------------------------------------ backtester
\* Fractions are exact: a pair <<numerator, denominator>> in lowest terms
\* with a positive denominator; float('inf') is <<1, 0>>.  Prices are whole
\* dollars, times whole hours, position sizes thousandths of the portfolio,
\* the stop-loss and take-profit percentages whole percents.  An attribute
\* that is None is <<>>; one that is set to v is <<v>>.
RECURSIVE GCD(_, _)
GCD(a, b) == IF b = 0 THEN a ELSE GCD(b, a % b)

Rat(n, d) ==
    IF n = 0 THEN <<0, 1>>
    ELSE LET g == GCD(Abs(n), Abs(d))
             s == IF d < 0 THEN -1 ELSE 1
         IN  <<(s * n) \div g, (s * d) \div g>>
Zero == <<0, 1>>
Infinity == <<1, 0>>
\* the common factors are divided out before the products are formed
RAdd(a, b) ==
    LET g == GCD(a[2], b[2])
    IN  Rat(a[1] * (b[2] \div g) + b[1] * (a[2] \div g), (a[2] \div g) * b[2])
RSub(a, b) == RAdd(a, <<-b[1], b[2]>>)
RMul(a, b) ==
    LET g1 == GCD(Abs(a[1]), b[2])
        g2 == GCD(Abs(b[1]), a[2])
    IN  Rat((a[1] \div g1) * (b[1] \div g2), (a[2] \div g2) * (b[2] \div g1))
RDiv(a, b) == RMul(a, IF b[1] < 0 THEN <<-b[2], -b[1]>> ELSE <<b[2], b[1]>>)
RAbs(a) == <<Abs(a[1]), a[2]>>
RLess(a, b) == a[1] * b[2] < b[1] * a[2]
RECURSIVE RSum(_)
RSum(s) == IF s = <<>> THEN Zero ELSE RAdd(Head(s), RSum(Tail(s)))
\* np.mean of a non-empty list
Mean(s) == RDiv(RSum(s), <<Len(s), 1>>)

\* ---------------------------------------------- binary floating point
\* np.mean and np.std work on float64.  A float64 is carried as its sign
\* (1, -1, or 0 for 0.0), its mantissa of MantissaBits bits and its
\* exponent: sign * mantissa * 2^exp.  A natural number of any size is the
\* sequence of its digits in base 2^LimbBits, most significant first,
\* without leading zeros.  Values stay far from the ends of the exponent
\* range, so overflow and subnormal numbers do not arise.
MantissaBits == 53
LimbBits == 15
Base == 2^LimbBits

Zeros(k) == [i \in 1..k |-> 0]
Front(a) == SubSeq(a, 1, Len(a) - 1)
Last(a) == a[Len(a)]
RECURSIVE LStrip(_)
LStrip(a) == IF a # <<>> /\ Head(a) = 0 THEN LStrip(Tail(a)) ELSE a
RECURSIVE LNat(_)
LNat(n) == IF n = 0 THEN <<>> ELSE Append(LNat(n \div Base), n % Base)
RECURSIVE LAddCarry(_, _, _)
LAddCarry(a, b, carry) ==
    IF a = <<>> /\ b = <<>> THEN (IF carry = 0 THEN <<>> ELSE <<carry>>)
    ELSE LET x == IF a = <<>> THEN 0 ELSE Last(a)
             y == IF b = <<>> THEN 0 ELSE Last(b)
             sum == x + y + carry
         IN  Append(LAddCarry(IF a = <<>> THEN a ELSE Front(a),
                              IF b = <<>> THEN b ELSE Front(b), sum \div Base), sum % Base)
LAdd(a, b) == LAddCarry(a, b, 0)
\* a - b for a >= b
RECURSIVE LSubBorrow(_, _, _)
LSubBorrow(a, b, borrow) ==
    IF a = <<>> THEN <<>>
    ELSE LET y == IF b = <<>> THEN 0 ELSE Last(b)
             diff == Last(a) - y - borrow
         IN  Append(LSubBorrow(Front(a), IF b = <<>> THEN b ELSE Front(b),
                               IF diff < 0 THEN 1 ELSE 0),
                    IF diff < 0 THEN diff + Base ELSE diff)
LSub(a, b) == LStrip(LSubBorrow(a, b, 0))
LLess(a, b) ==
    \/ Len(a) < Len(b)
    \/ /\ Len(a) = Len(b)
       /\ \E i \in 1..Len(a) : a[i] < b[i] /\ \A j \in 1..(i - 1) : a[j] = b[j]
\* a * m for a digit m
RECURSIVE LMulCarry(_, _, _)
LMulCarry(a, m, carry) ==
    IF a = <<>> THEN (IF carry = 0 THEN <<>> ELSE <<carry>>)
    ELSE LET v == Last(a) * m + carry
         IN  Append(LMulCarry(Front(a), m, v \div Base), v % Base)
LMulSmall(a, m) == LStrip(LMulCarry(a, m, 0))
RECURSIVE LMul(_, _)
LMul(a, b) ==
    IF a = <<>> \/ b = <<>> THEN <<>>
    ELSE LET rest == LMul(a, Front(b))
         IN  LAdd(IF rest = <<>> THEN rest ELSE Append(rest, 0), LMulSmall(a, Last(b)))
\* <<quotient, remainder>> of a by n, 0 < n <= Base, by long division
RECURSIVE LDivRem(_, _)
LDivRem(a, n) ==
    IF a = <<>> THEN << <<>>, 0 >>
    ELSE LET p == LDivRem(Front(a), n)
             v == p[2] * Base + Last(a)
         IN  <<Append(p[1], v \div n), v % n>>
LShiftLeft(a, k) ==
    IF a = <<>> THEN a ELSE LMulSmall(a, 2^(k % LimbBits)) \o Zeros(k \div LimbBits)
\* <<a shifted right by k bits, some bit that was shifted out is 1>>
LShiftRight(a, k) ==
    LET keep == Len(a) - (k \div LimbBits)
    IN  IF keep <= 0 THEN << <<>>, \E i \in 1..Len(a) : a[i] # 0 >>
        ELSE LET qr == LDivRem(SubSeq(a, 1, keep), 2^(k % LimbBits))
             IN  <<LStrip(qr[1]),
                   qr[2] # 0 \/ \E i \in (keep + 1)..Len(a) : a[i] # 0>>
LBitLen(a) ==
    IF a = <<>> THEN 0
    ELSE (Len(a) - 1) * LimbBits
         + (CHOOSE k \in 1..LimbBits : 2^(k - 1) <= a[1] /\ a[1] < 2^k)
LOdd(a) == a # <<>> /\ Last(a) % 2 = 1

FZero == [sign |-> 0, m |-> <<>>, exp |-> 0]
\* the mantissa brought to MantissaBits bits, for a of at most
\* MantissaBits bits or a power of two
FNorm(sign, a, exp) ==
    LET len == LBitLen(a)
    IN  IF a = <<>> THEN FZero
        ELSE IF len > MantissaBits
        THEN [sign |-> sign, m |-> LShiftRight(a, len - MantissaBits)[1],
              exp |-> exp + len - MantissaBits]
        ELSE [sign |-> sign, m |-> LShiftLeft(a, MantissaBits - len),
              exp |-> exp - (MantissaBits - len)]
\* round to nearest, ties to even; sticky tells that the exact value lies
\* above a * 2^exp
FRound(sign, a, exp, sticky) ==
    LET len == LBitLen(a)
    IN  IF len <= MantissaBits THEN FNorm(sign, a, exp)
        ELSE LET first == LShiftRight(a, len - MantissaBits - 1)
                 guard == LOdd(first[1])
                 keep == LShiftRight(first[1], 1)[1]
                 up == guard /\ (sticky \/ first[2] \/ LOdd(keep))
             IN  FNorm(sign, IF up THEN LAdd(keep, <<1>>) ELSE keep,
                       exp + len - MantissaBits)
FInt(k) == FNorm(IF k < 0 THEN -1 ELSE 1, LNat(IF k < 0 THEN -k ELSE k), 0)
FNeg(a) == [a EXCEPT !.sign = -a.sign]
\* a / n for an integer 0 < n <= Base
FDivInt(a, n) ==
    IF a.sign = 0 THEN FZero
    ELSE LET qr == LDivRem(a.m \o Zeros(2), n)
         IN  FRound(a.sign, LStrip(qr[1]), a.exp - 2 * LimbBits, qr[2] # 0)
FMul(a, b) ==
    IF a.sign = 0 \/ b.sign = 0 THEN FZero
    ELSE FRound(a.sign * b.sign, LMul(a.m, b.m), a.exp + b.exp, FALSE)
\* a + b; an addend more than 2 * MantissaBits binary places below the
\* other one leaves it as it is
FAdd(a, b) ==
    IF a.sign = 0 THEN b
    ELSE IF b.sign = 0 THEN a
    ELSE IF a.exp - b.exp > 2 * MantissaBits THEN a
    ELSE IF b.exp - a.exp > 2 * MantissaBits THEN b
    ELSE LET e == IF a.exp < b.exp THEN a.exp ELSE b.exp
             x == LShiftLeft(a.m, a.exp - e)
             y == LShiftLeft(b.m, b.exp - e)
         IN  IF a.sign = b.sign THEN FRound(a.sign, LAdd(x, y), e, FALSE)
             ELSE IF x = y THEN FZero
             ELSE IF LLess(y, x) THEN FRound(a.sign, LSub(x, y), e, FALSE)
             ELSE FRound(b.sign, LSub(y, x), e, FALSE)
FSub(a, b) == FAdd(a, FNeg(b))
\* np.add.reduce of fewer than 8 values: one addition after the other
RECURSIVE FSum(_)
FSum(s) == IF s = <<>> THEN FZero ELSE FAdd(FSum(Front(s)), Last(s))
\* np.mean
FMean(s) == FDivInt(FSum(s), Len(s))

\* Trade.__init__
Trade(symbol, entry_price, entry_time, position_size, stop_loss, take_profit) ==
    [ symbol          |-> symbol,
      entry_price     |-> entry_price,
      entry_time      |-> entry_time,
      position_size   |-> position_size,
      stop_loss       |-> stop_loss,
      take_profit     |-> take_profit,
      exit_price      |-> <<>>,
      exit_time       |-> <<>>,
      exit_reason     |-> <<>>,
      profit_loss     |-> <<>>,
      profit_loss_pct |-> <<>> ]

\* Trade.close_trade: the exit fields are assigned first, whatever the trade's
\* state; the division by an entry price of 0 then raises ZeroDivisionError
\* and leaves the two P&L fields as they were.
close_trade_raises(t) == t.entry_price = 0
close_trade(t, exit_price, exit_time, reason) ==
    LET exited == [t EXCEPT !.exit_price = <<exit_price>>,
                            !.exit_time = <<exit_time>>,
                            !.exit_reason = <<reason>>]
    IN  IF close_trade_raises(t) THEN exited
        ELSE [exited EXCEPT
                !.profit_loss_pct = <<Rat((exit_price - t.entry_price) * 100, t.entry_price)>>,
                !.profit_loss = <<Rat((exit_price - t.entry_price) * t.position_size,
                                      t.entry_price * 1000)>>]

\* Trade.is_open
is_open(t) == t.exit_price = <<>>

\* (mutant) the empty metrics with the profit factor of a list without losses
InitEmptyMetrics_InfiniteFactor ==
    [ total_trades |-> 0, winning_trades |-> 0, losing_trades |-> 0, win_rate |-> Zero,
      gross_profit |-> Zero, gross_loss |-> Zero, net_profit |-> Zero,
      profit_factor |-> Infinity, total_return |-> Zero, total_return_pct |-> Zero,
      avg_win |-> Zero, avg_loss |-> Zero, avg_win_pct |-> Zero, avg_loss_pct |-> Zero,
      max_drawdown |-> Zero, max_drawdown_pct |-> Zero,
      sharpe_ratio |-> [sign |-> 0, square |-> Zero],
      avg_trade_duration_hours |-> Zero ]

\* BacktestResult._init_empty_metrics
InitEmptyMetrics ==
    [ total_trades |-> 0, winning_trades |-> 0, losing_trades |-> 0, win_rate |-> Zero,
      gross_profit |-> Zero, gross_loss |-> Zero, net_profit |-> Zero,
      profit_factor |-> Zero, total_return |-> Zero, total_return_pct |-> Zero,
      avg_win |-> Zero, avg_loss |-> Zero, avg_win_pct |-> Zero, avg_loss_pct |-> Zero,
      max_drawdown |-> Zero, max_drawdown_pct |-> Zero,
      sharpe_ratio |-> [sign |-> 0, square |-> Zero],
      avg_trade_duration_hours |-> Zero ]

\* the closed trades of a list, in order
ClosedTrades(trades_) == SelectSeq(trades_, LAMBDA t : ~is_open(t))
\* the two sides of the win/loss split of the closed trades
IsWinning(t) == t.profit_loss[1][1] > 0
\* (mutant) a break-even trade counted on neither side
IsLosing_Strict(t) == t.profit_loss[1][1] < 0
IsLosing(t) == t.profit_loss[1][1] <= 0
\* (mutant) total_trades as the length of the whole list
TotalTrades_All(trades_, closed_trades) == Len(trades_)
\* total_trades
TotalTrades(trades_, closed_trades) == Len(closed_trades)
ProfitLosses(s) == [i \in 1..Len(s) |-> s[i].profit_loss[1]]
ProfitLossPcts(s) == [i \in 1..Len(s) |-> s[i].profit_loss_pct[1]]

\* BacktestResult._calculate_drawdown: the walk over all the trades, from
\* equity 1.0 and peak 1.0
\* (mutant) the walk over a compounded equity curve, equity * (1 + P&L)
RECURSIVE DrawdownWalk_Compounded(_, _, _, _)
DrawdownWalk_Compounded(trades_, equity, peak, max_dd) ==
    IF trades_ = <<>> THEN max_dd
    ELSE LET trade == Head(trades_)
         IN  IF is_open(trade) THEN DrawdownWalk_Compounded(Tail(trades_), equity, peak, max_dd)
             ELSE LET equity2 == RMul(equity, RAdd(<<1, 1>>, trade.profit_loss[1]))
                      peak2 == IF RLess(peak, equity2) THEN equity2 ELSE peak
                      drawdown == RDiv(RSub(peak2, equity2), peak2)
                      max_dd2 == IF RLess(max_dd, drawdown) THEN drawdown ELSE max_dd
                  IN  DrawdownWalk_Compounded(Tail(trades_), equity2, peak2, max_dd2)

\* (mutant) the walk with the peak following the equity down
RECURSIVE DrawdownWalk_PeakFollows(_, _, _, _)
DrawdownWalk_PeakFollows(trades_, equity, peak, max_dd) ==
    IF trades_ = <<>> THEN max_dd
    ELSE LET trade == Head(trades_)
         IN  IF is_open(trade) THEN DrawdownWalk_PeakFollows(Tail(trades_), equity, peak, max_dd)
             ELSE LET equity2 == RAdd(equity, trade.profit_loss[1])
                      peak2 == equity2
                      drawdown == RDiv(RSub(peak2, equity2), peak2)
                      max_dd2 == IF RLess(max_dd, drawdown) THEN drawdown ELSE max_dd
                  IN  DrawdownWalk_PeakFollows(Tail(trades_), equity2, peak2, max_dd2)

RECURSIVE DrawdownWalk(_, _, _, _)
DrawdownWalk(trades_, equity, peak, max_dd) ==
    IF trades_ = <<>> THEN max_dd
    ELSE LET trade == Head(trades_)
         IN  IF is_open(trade) THEN DrawdownWalk(Tail(trades_), equity, peak, max_dd)
             ELSE LET equity2 == RAdd(equity, trade.profit_loss[1])
                      peak2 == IF RLess(peak, equity2) THEN equity2 ELSE peak
                      drawdown == RDiv(RSub(peak2, equity2), peak2)
                      max_dd2 == IF RLess(max_dd, drawdown) THEN drawdown ELSE max_dd
                  IN  DrawdownWalk(Tail(trades_), equity2, peak2, max_dd2)
CalculateDrawdown(trades_) ==
    IF trades_ = <<>> THEN Zero ELSE DrawdownWalk(trades_, <<1, 1>>, <<1, 1>>, Zero)

\* BacktestResult._calculate_sharpe_ratio: mean / std * sqrt(365), carried as
\* its sign and its square, mean^2 / variance * 365 (np.std is the population
\* deviation)
Variance(s) ==
    LET m == Mean(s)
    IN  Mean([i \in 1..Len(s) |-> RMul(RSub(s[i], m), RSub(s[i], m))])
\* Trade.close_trade's profit_loss as the float64 it is:
\* (exit_price - entry_price) / entry_price * position_size
FloatProfitLoss(t) ==
    FMul(FDivInt(FInt(t.exit_price[1] - t.entry_price), t.entry_price),
         FDivInt(FInt(t.position_size), 1000))
FloatReturns(closed_trades) ==
    [i \in 1..Len(closed_trades) |-> FloatProfitLoss(closed_trades[i])]
\* np.std(returns): the mean of the squared deviations from np.mean, before
\* the square root is taken
FloatVariance(r) ==
    FMean([i \in 1..Len(r) |-> FMul(FSub(r[i], FMean(r)), FSub(r[i], FMean(r)))])
\* std_return == 0
StdIsZero(r) == FloatVariance(r).sign = 0
\* Returns that differ have a deviation far above the rounding error, and
\* the ratio is then carried by the exact mean and variance.  Returns that
\* are all equal have no deviation but the rounding error of np.mean: when
\* that is not 0.0 the ratio is float64 mean / sqrt(float64 variance) *
\* sqrt(365), carried as the two float64 values.
CalculateSharpeRatio(trades_) ==
    LET closed_trades == ClosedTrades(trades_)
        returns == ProfitLosses(closed_trades)
    IN  IF trades_ = <<>> \/ Len(returns) < 2 THEN [sign |-> 0, square |-> Zero]
        ELSE LET mean_return == Mean(returns)
                 variance == Variance(returns)
             IN  IF variance = Zero
                 THEN IF StdIsZero(FloatReturns(closed_trades))
                      THEN [sign |-> 0, square |-> Zero]
                      ELSE [ sign        |-> FMean(FloatReturns(closed_trades)).sign,
                             mean_return |-> FMean(FloatReturns(closed_trades)),
                             variance    |-> FloatVariance(FloatReturns(closed_trades)) ]
                 ELSE [ sign   |-> IF mean_return[1] > 0 THEN 1
                                   ELSE IF mean_return[1] < 0 THEN -1 ELSE 0,
                        square |-> RMul(RDiv(RMul(mean_return, mean_return), variance),
                                          <<365, 1>>) ]

\* (mutant) the profit factor 0 when there is no gross loss
ProfitFactor_ZeroDefault(gross_profit, gross_loss) ==
    IF gross_loss[1] > 0 THEN RDiv(gross_profit, gross_loss) ELSE Zero

\* profit_factor: gross_profit / gross_loss if gross_loss > 0 else float('inf')
ProfitFactor(gross_profit, gross_loss) ==
    IF gross_loss[1] > 0 THEN RDiv(gross_profit, gross_loss) ELSE Infinity

\* BacktestResult._calculate_metrics raises TypeError when a trade whose exit
\* price is set has no P&L (None > 0)
CalculateMetricsRaises(trades_) ==
    \E i \in 1..Len(trades_) : ~is_open(trades_[i]) /\ trades_[i].profit_loss = <<>>

\* BacktestResult.__init__ / _calculate_metrics, for a list on which it does
\* not raise
CalculateMetrics(trades_) ==
    LET closed_trades == ClosedTrades(trades_)
        winning_trades == SelectSeq(closed_trades, IsWinning)
        losing_trades == SelectSeq(closed_trades, IsLosing)
        total == TotalTrades(trades_, closed_trades)
        gross_profit == RSum(ProfitLosses(winning_trades))
        gross_loss == RAbs(RSum(ProfitLosses(losing_trades)))
        net_profit == RSub(gross_profit, gross_loss)
        max_dd == CalculateDrawdown(trades_)
        durations == [i \in 1..Len(closed_trades) |->
                         <<closed_trades[i].exit_time[1] - closed_trades[i].entry_time, 1>>]
    IN  IF trades_ = <<>> \/ closed_trades = <<>> THEN InitEmptyMetrics
        ELSE [ total_trades     |-> total,
               winning_trades   |-> Len(winning_trades),
               losing_trades    |-> Len(losing_trades),
               win_rate         |-> IF total > 0 THEN Rat(Len(winning_trades), total) ELSE Zero,
               gross_profit     |-> gross_profit,
               gross_loss       |-> gross_loss,
               net_profit       |-> net_profit,
               profit_factor    |-> ProfitFactor(gross_profit, gross_loss),
               total_return     |-> net_profit,
               total_return_pct |-> RMul(net_profit, <<100, 1>>),
               avg_win          |-> IF Len(winning_trades) > 0
                                    THEN RDiv(gross_profit, <<Len(winning_trades), 1>>)
                                    ELSE Zero,
               avg_loss         |-> IF Len(losing_trades) > 0
                                    THEN RDiv(gross_loss, <<Len(losing_trades), 1>>)
                                    ELSE Zero,
               avg_win_pct      |-> IF winning_trades # <<>>
                                    THEN Mean(ProfitLossPcts(winning_trades)) ELSE Zero,
               avg_loss_pct     |-> IF losing_trades # <<>>
                                    THEN Mean(ProfitLossPcts(losing_trades)) ELSE Zero,
               max_drawdown     |-> max_dd,
               max_drawdown_pct |-> RMul(max_dd, <<100, 1>>),
               sharpe_ratio     |-> CalculateSharpeRatio(trades_),
               avg_trade_duration_hours |-> Mean(durations) ]

\* ------------------------------------------- the backtester as a machine
\* (mutant) a win probability of 1.0
WinProbability_Certain(coin_data) == 100

\* (mutant) a win probability without the wash-trading penalty
WinProbability_NoPenalty(coin_data) ==
    LET momentum == coin_data.change_24h
        enhanced_score == Get(coin_data, "enhanced_score",
                              Get(coin_data, "composite_score", 50))
    IN  Max(20, Min(80, 50 + (IF momentum > 10 THEN 15
                              ELSE IF momentum > 5 THEN 10
                              ELSE IF momentum < -10 THEN -15 ELSE 0)
                           + (IF enhanced_score > 75 THEN 10
                              ELSE IF enhanced_score > 60 THEN 5 ELSE 0)))

\* CryptoBacktester._simulate_trade_outcome: the win probability in
\* hundredths, after np.clip
WinProbability(coin_data) ==
    LET momentum == coin_data.change_24h
        base_prob == 50 + (IF momentum > 10 THEN 15
                           ELSE IF momentum > 5 THEN 10
                           ELSE IF momentum < -10 THEN -15 ELSE 0)
        enhanced_score == Get(coin_data, "enhanced_score",
                              Get(coin_data, "composite_score", 50))
        scored_prob == base_prob + (IF enhanced_score > 75 THEN 10
                                    ELSE IF enhanced_score > 60 THEN 5 ELSE 0)
        wash_prob == scored_prob
                     - (IF Get(coin_data, "wash_trading_suspicious", FALSE) THEN 20 ELSE 0)
    IN  Max(20, Min(80, wash_prob))

\* the values np.random.uniform(a, b) is drawn from here: the two ends and
\* the whole percent in the middle
Uniform(a, b) == {a, (a + b) \div 2, b}

\* the outcomes _simulate_trade_outcome can return: np.random.random() is in
\* [0, 1), so the win branch needs a win probability above 0
Outcomes(coin_data, sl_pct, tp_pct) ==
    LET entry_price == coin_data.price
        win_prob == WinProbability(coin_data)
        wins == {[exit_price |-> (entry_price * (100 + tp_pct)) \div 100,
                  reason |-> "Take Profit"]}
                \cup {[exit_price |-> (entry_price * (100 + partial_gain)) \div 100,
                       reason |-> "Partial Profit"] : partial_gain \in Uniform(5, tp_pct)}
        losses == {[exit_price |-> (entry_price * (100 - sl_pct)) \div 100,
                    reason |-> "Stop Loss"]}
                  \cup {[exit_price |-> (entry_price * (100 - partial_loss)) \div 100,
                         reason |-> "Partial Loss"] : partial_loss \in Uniform(2, sl_pct)}
    IN  (IF win_prob > 0 THEN wins ELSE {}) \cup (IF win_prob < 100 THEN losses ELSE {})

\* one pass of the loop of simulate_recommendation_strategy
SimulatedTrade(coin_data, now, hold_period_hours, stop_loss_pct, take_profit_pct, outcome) ==
    LET entry_price == coin_data.price
        position_size == Get(coin_data, "kelly_position_size", 50)
        sl_price == (entry_price * (100 - stop_loss_pct)) \div 100
        tp_price == (entry_price * (100 + take_profit_pct)) \div 100
        trade == Trade(coin_data.symbol, entry_price, now, position_size, sl_price, tp_price)
    IN  close_trade(trade, outcome.exit_price, now + hold_period_hours, outcome.reason)

\* the inputs of the runs
MaxTrades == 2
EntryPrices == {0, 100}
PositionSizes == {50}
ExitPrices == {90, 100, 120}
ExitTimes == {24, 48}
ExitReasons == {"Take Profit", "Stop Loss"}
HoldPeriodHours == 24
StopLossPct == 10
TakeProfitPct == 20
Candidates ==
    { [symbol |-> "ALT", price |-> 100, change_24h |-> c] @@ k :
        c \in {12, -12}, k \in {<<>>, [kelly_position_size |-> 75]} }

\* (mutant) the new list of a run starting from the trades of the run before
FreshTrades_Shared(self_trades) == self_trades

\* `trades = []` of simulate_recommendation_strategy: the list a run starts from
FreshTrades(self_trades) == <<>>

\* the list of trades simulate_recommendation_strategy builds and keeps in
\* self.trades, for the outcomes drawn for its candidates
StrategyTrades(self_trades, recs, outcomes) ==
    FreshTrades(self_trades)
    \o [i \in 1..Len(recs) |->
          SimulatedTrade(recs[i], 0, HoldPeriodHours, StopLossPct, TakeProfitPct, outcomes[i])]

\* ------------------------------------------- run_monte_carlo_simulation
\* the candidates of the Monte-Carlo runs: one with the strongest momentum
\* and score a candidate can have (24h change above 10, score above 75), one
\* with a falling price and no score, one in between (scores as the callers
\* hand them over, 0 to 100)
StrongCandidate ==
    [symbol |-> "ALT", price |-> 100, change_24h |-> 12, enhanced_score |-> 80,
     kelly_position_size |-> 75]
WeakCandidate == [symbol |-> "ALT", price |-> 100, change_24h |-> -12]
MildCandidate == [symbol |-> "ALT", price |-> 100, change_24h |-> 7, enhanced_score |-> 65]
McCandidates == {StrongCandidate, WeakCandidate, MildCandidate}
MaxCandidates == 1
MaxRuns == 2

\* the random draws of the Monte-Carlo runs: both sides of each random test,
\* and the lower end of each uniform draw
McOutcomes(coin_data, sl_pct, tp_pct) ==
    {o \in Outcomes(coin_data, sl_pct, tp_pct) :
        \/ o.reason \in {"Take Profit", "Stop Loss"}
        \/ o.exit_price \in {(coin_data.price * 105) \div 100, (coin_data.price * 98) \div 100}}

\* the record run_monte_carlo_simulation keeps of one BacktestResult
RunResult(result_) ==
    [ win_rate      |-> result_.win_rate,
      net_profit    |-> result_.net_profit,
      sharpe_ratio  |-> result_.sharpe_ratio,
      max_drawdown  |-> result_.max_drawdown,
      profit_factor |-> result_.profit_factor ]

\* float('nan')
NaN == <<0, 0>>
Column(rows, col) == [i \in 1..Len(rows) |-> rows[i][col]]
\* Series.std(): the sample deviation (ddof = 1), carried as its square; NaN
\* for a single value
SampleVariance(s) ==
    IF Len(s) < 2 THEN NaN
    ELSE LET m == Mean(s)
         IN  RDiv(RSum([i \in 1..Len(s) |-> RMul(RSub(s[i], m), RSub(s[i], m))]),
                  <<Len(s) - 1, 1>>)
\* Series.min(), Series.max(), Series.median()
SeriesMin(s) == CHOOSE i \in 1..Len(s) : \A j \in 1..Len(s) : ~RLess(s[j], s[i])
SeriesMax(s) == CHOOSE i \in 1..Len(s) : \A j \in 1..Len(s) : ~RLess(s[i], s[j])
RankOf(s, i) ==
    Cardinality({j \in 1..Len(s) : RLess(s[j], s[i]) \/ (s[j] = s[i] /\ j <= i)})
SeriesSorted(s) == [r \in 1..Len(s) |-> s[CHOOSE i \in 1..Len(s) : RankOf(s, i) = r]]
SeriesMedian(s) ==
    LET sorted == SeriesSorted(s)
        n == Len(s)
    IN  IF n % 2 = 1 THEN sorted[(n + 1) \div 2]
        ELSE RDiv(RAdd(sorted[n \div 2], sorted[n \div 2 + 1]), <<2, 1>>)

\* the statistics over the DataFrame of the results; the mean of the Sharpe
\* ratios, which are carried as sign and square, is carried as the list of
\* the ratios it is the mean of
MonteCarloStats(rows) ==
    LET win_rate == Column(rows, "win_rate")
        net_profit == Column(rows, "net_profit")
        profitable == Cardinality({i \in 1..Len(rows) : net_profit[i][1] > 0})
    IN  [ mean_win_rate      |-> Mean(win_rate),
          var_win_rate       |-> SampleVariance(win_rate),
          mean_net_profit    |-> Mean(net_profit),
          var_net_profit     |-> SampleVariance(net_profit),
          mean_sharpe_of     |-> Column(rows, "sharpe_ratio"),
          profitable_simulations_pct |-> Rat(profitable * 100, Len(rows)),
          worst_case_profit  |-> net_profit[SeriesMin(net_profit)],
          best_case_profit   |-> net_profit[SeriesMax(net_profit)],
          median_profit      |-> SeriesMedian(net_profit) ]

MInit ==
    /\ num_simulations \in 0..MaxRuns
    /\ \E k \in 0..MaxCandidates : recommendations \in [1..k -> McCandidates]
    /\ trades = <<>>
    /\ metrics = NoneRec
    /\ failed = ""
    /\ results = <<>>
    /\ run_trades = <<>>
    /\ monte_carlo_stats = NoneRec

\* one pass of the loop of run_monte_carlo_simulation: a call of
\* simulate_recommendation_strategy, whose BacktestResult is `metrics`, and
\* the append to `results`
MonteCarloRun ==
    /\ monte_carlo_stats = NoneRec /\ failed = ""
    /\ Len(results) < num_simulations
    /\ \E outcomes \in [1..Len(recommendations) ->
                          UNION {McOutcomes(c, StopLossPct, TakeProfitPct) : c \in McCandidates}] :
          /\ \A i \in 1..Len(recommendations) :
                outcomes[i] \in McOutcomes(recommendations[i], StopLossPct, TakeProfitPct)
          /\ trades' = StrategyTrades(trades, recommendations, outcomes)
          /\ metrics' = CalculateMetrics(trades')
          /\ results' = Append(results, RunResult(metrics'))
          /\ run_trades' = Append(run_trades, trades')
    /\ UNCHANGED <<recommendations, failed, num_simulations, monte_carlo_stats>>

\* the end of the loop: the statistics over the results; an empty DataFrame
\* has no column 'win_rate'
MonteCarloSummary ==
    /\ monte_carlo_stats = NoneRec /\ failed = ""
    /\ Len(results) = num_simulations
    /\ IF results = <<>>
       THEN failed' = "KeyError" /\ UNCHANGED monte_carlo_stats
       ELSE failed' = "" /\ monte_carlo_stats' = MonteCarloStats(results)
    /\ UNCHANGED <<trades, recommendations, metrics, num_simulations, results, run_trades>>

\* the lists of closed trades of the drawdown scenario, in any order and
\* number, each trade at most once: each trade stakes the whole portfolio at
\* an entry price of 100, so that an exit price of 110 is a fractional P&L of
\* +0.10
MaxScenarioTrades == 5
ScenarioExitPrices == {110, 95, 102, 80, 108, 100}
ScenarioTrade(exit_price) ==
    close_trade(Trade("ALT", 100, 0, 1000, 90, 120), exit_price, 24, "Take Profit")
ScenarioInit ==
    /\ \E k \in 0..MaxScenarioTrades : \E exits \in [1..k -> ScenarioExitPrices] :
          /\ \A i, j \in 1..k : i # j => exits[i] # exits[j]
          /\ trades = [i \in 1..k |-> ScenarioTrade(exits[i])]
    /\ recommendations = <<>>
    /\ metrics = NoneRec
    /\ failed = ""

\* lists of trades whose returns may repeat: some open, the others closed at
\* one of a few exit prices, each staking the whole portfolio at an entry
\* price of 100
MaxReturns == 3
RepeatedTrades ==
    { ScenarioTrade(exit_price) : exit_price \in {110, 80, 100, 95} }
    \cup { Trade("ALT", 100, 0, 1000, 90, 120) }
RepeatedInit ==
    /\ \E k \in 0..MaxReturns : trades \in [1..k -> RepeatedTrades]
    /\ recommendations = <<>>
    /\ metrics = NoneRec
    /\ failed = ""

TInit ==
    /\ trades = <<>>
    /\ recommendations = <<>>
    /\ metrics = NoneRec
    /\ failed = ""

\* a caller creates a trade and keeps it in its list
NewTrade ==
    /\ metrics = NoneRec /\ failed # "TypeError"
    /\ Len(trades) < MaxTrades
    /\ \E entry_price \in EntryPrices, position_size \in PositionSizes :
          trades' = Append(trades, Trade("ALT", entry_price, 0, position_size,
                                         (entry_price * 90) \div 100,
                                         (entry_price * 120) \div 100))
    /\ failed' = ""
    /\ UNCHANGED <<recommendations, metrics>>

\* a caller calls close_trade on a trade of its list, open or not
CloseTrade ==
    /\ metrics = NoneRec /\ failed # "TypeError"
    /\ \E i \in 1..Len(trades), exit_price \in ExitPrices, exit_time \in ExitTimes,
          reason \in ExitReasons :
          /\ trades' = [trades EXCEPT ![i] = close_trade(@, exit_price, exit_time, reason)]
          /\ failed' = IF close_trade_raises(trades[i]) THEN "ZeroDivisionError" ELSE ""
    /\ UNCHANGED <<recommendations, metrics>>

\* BacktestResult(trades)
Aggregate ==
    /\ metrics = NoneRec /\ failed # "TypeError"
    /\ IF CalculateMetricsRaises(trades)
       THEN failed' = "TypeError" /\ UNCHANGED metrics
       ELSE failed' = "" /\ metrics' = CalculateMetrics(trades)
    /\ UNCHANGED <<trades, recommendations>>

\* CryptoBacktester.simulate_recommendation_strategy on a fresh backtester:
\* it builds its own list of trades and replaces self.trades with it
Simulate ==
    /\ metrics = NoneRec /\ failed # "TypeError"
    /\ trades = <<>>
    /\ \E k \in 0..MaxTrades : \E recs \in [1..k -> Candidates] :
          \E outcomes \in [1..k -> UNION {Outcomes(c, StopLossPct, TakeProfitPct) : c \in Candidates}] :
             /\ \A i \in 1..k : outcomes[i] \in Outcomes(recs[i], StopLossPct, TakeProfitPct)
             /\ recommendations' = recs
             /\ trades' = StrategyTrades(trades, recs, outcomes)
             /\ metrics' = CalculateMetrics(trades')
    /\ failed' = ""

\* ------------------------------------------------ the specifications
AIdle ==
    /\ engine = "none" /\ coins_data = <<>> /\ df = <<>> /\ btc_data = NoneRec
    /\ scored = FALSE /\ call = NoCall /\ result = <<>> /\ raised = FALSE
CIdle == probe = NoneRec /\ composite = NoneRec
TIdle == trades = <<>> /\ recommendations = <<>> /\ metrics = NoneRec /\ failed = ""
PIdle == arguments = NoneRec /\ returned = NoneRec
MIdle ==
    /\ num_simulations = 0 /\ results = <<>> /\ run_trades = <<>>
    /\ monte_carlo_stats = NoneRec

\* the two analyzers: construction, scoring, one ranking query
Init == AInit /\ CIdle /\ TIdle /\ MIdle /\ PIdle
Next ==
    \/ CalculateScores /\ UNCHANGED <<cvars, tvars, mvars, pvars>>
    \/ CalculateComprehensiveScores /\ UNCHANGED <<cvars, tvars, mvars, pvars>>
    \/ TopByCategory /\ UNCHANGED <<cvars, tvars, mvars, pvars>>
    \/ TopSafeRecommendations /\ UNCHANGED <<cvars, tvars, mvars, pvars>>
    \/ TopHighRiskCoins /\ UNCHANGED <<cvars, tvars, mvars, pvars>>
    \/ TopBinanceSpotCoins /\ UNCHANGED <<cvars, tvars, mvars, pvars>>
    \/ TopBinanceWalletCoins /\ UNCHANGED <<cvars, tvars, mvars, pvars>>
Spec == Init /\ [][Next]_vars

\* the composite formulas over arbitrary sub-scores
InitComposite == AIdle /\ CInit /\ TIdle /\ MIdle /\ PIdle
NextComposite ==
    \/ ComposeLegacy /\ UNCHANGED <<avars, tvars, mvars, pvars>>
    \/ ComposeEnhanced /\ UNCHANGED <<avars, tvars, mvars, pvars>>
SpecComposite == InitComposite /\ [][NextComposite]_vars

\* the backtester: trades, their closing, the metrics
InitBacktest == AIdle /\ CIdle /\ TInit /\ MIdle /\ PIdle
NextBacktest ==
    \/ NewTrade /\ UNCHANGED <<avars, cvars, mvars, pvars>>
    \/ CloseTrade /\ UNCHANGED <<avars, cvars, mvars, pvars>>
    \/ Aggregate /\ UNCHANGED <<avars, cvars, mvars, pvars>>
    \/ Simulate /\ UNCHANGED <<avars, cvars, mvars, pvars>>
SpecBacktest == InitBacktest /\ [][NextBacktest]_vars

\* the metrics of the lists of closed trades of the drawdown scenario
InitScenario == AIdle /\ CIdle /\ ScenarioInit /\ MIdle /\ PIdle
NextScenario == Aggregate /\ UNCHANGED <<avars, cvars, mvars, pvars>>
SpecScenario == InitScenario /\ [][NextScenario]_vars

\* BacktestResult over lists with repeated returns
InitRepeated == AIdle /\ CIdle /\ RepeatedInit /\ MIdle /\ PIdle
NextRepeated == Aggregate /\ UNCHANGED <<avars, cvars, mvars, pvars>>
SpecRepeated == InitRepeated /\ [][NextRepeated]_vars

\* run_monte_carlo_simulation, run by run
InitMonteCarlo == AIdle /\ CIdle /\ MInit /\ PIdle
NextMonteCarlo ==
    \/ MonteCarloRun /\ UNCHANGED <<avars, cvars, pvars>>
    \/ MonteCarloSummary /\ UNCHANGED <<avars, cvars, pvars>>
SpecMonteCarlo == InitMonteCarlo /\ [][NextMonteCarlo]_vars

\* ------------------------------------------------ claims C1 - C5
Returned_ids == {result[i].cmc_id : i \in 1..Len(result)}
DfRows == {df[i] : i \in 1..Len(df)}
NotReturned == {r \in DfRows : r.cmc_id \notin Returned_ids}
RowScore(r) == IF engine = "legacy" THEN r.composite_score ELSE r.enhanced_composite_score
Answered(op) == call.op = op /\ scored /\ ~raised
Unsafe(r) == r.wash_trading_suspicious /\ r.wash_trading_confidence >= 30
\* the category predicates, as the specification words them
Qualifies(r, category) ==
    CASE category = "spot" -> r.on_binance /\ r.contract_address = ""
      [] category = "futures" -> r.market_cap > 100000000 /\ r.volume_24h > 10000000
      [] category = "web3" -> r.contract_address # ""
      [] OTHER -> FALSE
Sorted == \A i, j \in 1..Len(result) : i < j => result[i].composite_score >= result[j].composite_score
DistinctRows == \A i, j \in 1..Len(result) : i # j => result[i].cmc_id # result[j].cmc_id

\* C1 (as claimed): a spot query never returns an asset with a non-empty
\* contract address, neither get_top_by_category('spot', n) nor the legacy
\* get_top_binance_spot_coins(n).
C1_SpotNeverHasContract ==
    (\/ Answered("get_top_by_category") /\ call.category = "spot"
     \/ Answered("get_top_binance_spot_coins"))
    => \A i \in 1..Len(result) : result[i].contract_address = ""

\* C2: no row returned by get_top_by_category or get_top_safe_recommendations
\* is both wash-trading-suspicious and of confidence >= 30; the safety filter
\* comes before the category filter and the ranking, so the rows it removes
\* take no place among the n: the result has min(n, number of safe rows of
\* the category) rows.
C2_NoUnsafeRowReturned ==
    /\ Answered("get_top_by_category") =>
          /\ \A i \in 1..Len(result) : ~Unsafe(result[i])
          /\ Len(result) = Min(call.n, Cardinality({r \in DfRows :
                                   ~Unsafe(r) /\ Qualifies(r, call.category)}))
    /\ Answered("get_top_safe_recommendations") =>
          /\ \A i \in 1..Len(result) : ~Unsafe(result[i])
          /\ Len(result) = Min(call.n, Cardinality({r \in DfRows : ~Unsafe(r)}))
C2_Witness ==
    /\ Answered("get_top_by_category")
    /\ call.category = "web3"
    /\ Len(result) = 1
    /\ \E r \in NotReturned :
          /\ Unsafe(r) /\ Qualifies(r, "web3")
          /\ r.enhanced_composite_score > result[1].enhanced_score
          /\ r.wash_trading_confidence = 30

\* C3 (as claimed): rank returns rows in non-increasing score order, exactly
\* min(n, len(scored)) of them, every returned score >= every score not
\* returned, and nothing for an empty batch.
C3_RankReturnsTopOfBatch ==
    (Answered("get_top_high_risk_coins") \/ Answered("get_top_safe_recommendations"))
    => /\ Sorted
       /\ Len(result) = Min(call.n, Len(df))
       /\ \A r \in NotReturned : \A i \in 1..Len(result) :
              result[i].composite_score >= RowScore(r)
       /\ df = <<>> => result = <<>>

\* C3 (amended): that holds of get_top_high_risk_coins; and with "the safe
\* rows of the batch" in place of "the batch" it holds of
\* get_top_safe_recommendations, which ranks only the rows that pass the
\* safety filter.
C3_RankReturnsTopOfSafeRows ==
    /\ Answered("get_top_high_risk_coins") =>
          /\ Sorted /\ DistinctRows
          /\ Len(result) = Min(call.n, Len(df))
          /\ \A r \in NotReturned : \A i \in 1..Len(result) :
                 result[i].composite_score >= r.composite_score
          /\ df = <<>> => result = <<>>
    /\ Answered("get_top_safe_recommendations") =>
          /\ Sorted /\ DistinctRows
          /\ Len(result) = Min(call.n, Cardinality({r \in DfRows : ~Unsafe(r)}))
          /\ \A r \in NotReturned : ~Unsafe(r) => \A i \in 1..Len(result) :
                 result[i].composite_score >= r.enhanced_composite_score
          /\ df = <<>> => result = <<>>
C3_Witness ==
    /\ Answered("get_top_safe_recommendations")
    /\ Len(df) = 2 /\ call.n = 2 /\ Len(result) = 1
    /\ \E r \in NotReturned : Unsafe(r) /\ r.enhanced_composite_score > result[1].composite_score

\* C4: get_top_by_category('futures', n) returns the n highest-scoring of the
\* safe rows with market cap > 100M and 24h volume > 10M (all of them when
\* they are fewer than n), get_top_by_category('web3', n) the n highest-scoring
\* of the safe rows with a contract address: every returned row is a safe row
\* of the category, and no safe row of the category that was left out scores
\* higher than a returned row.
C4_CategoryTopN ==
    (Answered("get_top_by_category") /\ call.category \in {"futures", "web3"}) =>
        /\ Sorted /\ DistinctRows
        /\ \A i \in 1..Len(result) :
              /\ Qualifies(result[i], call.category)
              /\ ~Unsafe(result[i])
              /\ \E r \in DfRows : r.cmc_id = result[i].cmc_id
                                   /\ r.enhanced_composite_score = result[i].enhanced_score
        /\ Len(result) = Min(call.n, Cardinality({r \in DfRows :
                                 ~Unsafe(r) /\ Qualifies(r, call.category)}))
        /\ \A r \in NotReturned : (~Unsafe(r) /\ Qualifies(r, call.category)) =>
              \A i \in 1..Len(result) : result[i].enhanced_score >= r.enhanced_composite_score
C4_Witness ==
    /\ Answered("get_top_by_category") /\ call.category = "futures"
    /\ call.n = 1 /\ Len(result) = 1
    /\ \E r \in NotReturned : ~Unsafe(r) /\ Qualifies(r, "futures")
                              /\ r.enhanced_composite_score < result[1].enhanced_score
    /\ df[1].cmc_id # result[1].cmc_id

\* C5: a ranking query over a scored batch raises nothing and returns an
\* empty list when the batch is empty, when the safety filter removes every
\* row, when no safe row is of the category, or when the category is none of
\* spot, futures, web3.
C5_EmptyResultNotError ==
    /\ (scored /\ call.op = "get_top_by_category"
        /\ (\/ df = <<>>
            \/ \A r \in DfRows : Unsafe(r)
            \/ call.category \notin {"spot", "futures", "web3"}
            \/ \A r \in DfRows : ~Unsafe(r) => ~Qualifies(r, call.category)))
       => (~raised /\ result = <<>>)
    /\ (scored /\ call.op = "get_top_safe_recommendations"
        /\ (df = <<>> \/ \A r \in DfRows : Unsafe(r)))
       => (~raised /\ result = <<>>)
    /\ (scored /\ call.op = "get_top_high_risk_coins" /\ df = <<>>)
       => (~raised /\ result = <<>>)
    /\ (scored /\ call.op = "get_top_binance_spot_coins"
        /\ (df = <<>> \/ \A r \in DfRows : ~r.on_binance))
       => (~raised /\ result = <<>>)
C5_Witness ==
    /\ scored /\ call.op = "get_top_by_category" /\ call.category = "margin"
    /\ call.n > 0
    /\ \E r \in DfRows : ~Unsafe(r)
    /\ result = <<>> /\ ~raised

\* ------------------------------------------------ claims C6, C7
\* C6: of two rows with the same sub-scores, the one with the higher wash
\* confidence has the lower or equal enhanced composite score; a confidence
\* above 0 never gives more than confidence 0 does.
C6_WashPenaltyMonotonic ==
    (composite # NoneRec /\ probe.kind = "enhanced") =>
        /\ probe.confidence <= probe.other_confidence => composite.other_score <= composite.score
        /\ composite.score <= EnhancedOf(probe, 0)
C6_Witness ==
    /\ composite # NoneRec /\ probe.kind = "enhanced"
    /\ probe.confidence = 20 /\ probe.other_confidence = 60
    /\ composite.other_score < composite.score

\* C7: the composite score is the weighted sum of the sub-scores with the
\* stated weights, which sum to 1: sub-scores all 0 give 0 and sub-scores
\* all 100 give exactly 100 (legacy, and enhanced at wash confidence 0).
C7_LegacyWeights ==
    [ unusual_volume |-> 25, momentum |-> 20, trend_strength |-> 15, volume_activity |-> 15,
      market_cap_risk |-> 15, volatility |-> 5, rsi_like |-> 5 ]
C7_EnhancedWeights ==
    [ rsi |-> 15, macd |-> 15, bollinger |-> 10, market_correlation |-> 15, momentum |-> 15,
      volume_activity |-> 15, market_cap_risk |-> 10, volatility |-> 5 ]
RECURSIVE C7_Sum(_, _, _)
C7_Sum(weights, p, names) ==
    IF names = {} THEN 0
    ELSE LET k == CHOOSE k \in names : TRUE
         IN  weights[k] * p[k] + C7_Sum(weights, p, names \ {k})
C7_All(p, names, v) == \A k \in names : p[k] = v
C7_WeightsSumToOne ==
    /\ C7_Sum(C7_LegacyWeights, [k \in DOMAIN C7_LegacyWeights |-> 1], DOMAIN C7_LegacyWeights) = 100
    /\ C7_Sum(C7_EnhancedWeights, [k \in DOMAIN C7_EnhancedWeights |-> 1], DOMAIN C7_EnhancedWeights) = 100
    /\ (composite # NoneRec /\ probe.kind = "legacy") =>
          /\ composite.score = C7_Sum(C7_LegacyWeights, probe, DOMAIN C7_LegacyWeights)
          /\ C7_All(probe, DOMAIN C7_LegacyWeights, 0) => composite.score = 0
          /\ C7_All(probe, DOMAIN C7_LegacyWeights, 100 * 60) => composite.score = 100 * 6000
    /\ (composite # NoneRec /\ probe.kind = "enhanced" /\ probe.confidence = 0) =>
          /\ composite.score = 1000 * C7_Sum(C7_EnhancedWeights, probe, DOMAIN C7_EnhancedWeights)
          /\ C7_All(probe, DOMAIN C7_EnhancedWeights, 0) => composite.score = 0
          /\ C7_All(probe, DOMAIN C7_EnhancedWeights, 100 * 60) => composite.score = 100 * 6000000
C7_Witness ==
    /\ composite # NoneRec /\ probe.kind = "legacy"
    /\ C7_All(probe, DOMAIN C7_LegacyWeights, 100 * 60)
    /\ composite.score = 100 * 6000

\* ------------------------------------------------ claims C8 - C10
C_Closed == SelectSeq(trades, LAMBDA t : t.exit_price # <<>>)
C_Won == {i \in 1..Len(trades) : trades[i].exit_price # <<>> /\ RLess(Zero, trades[i].profit_loss[1])}
C_Lost == {i \in 1..Len(trades) : trades[i].exit_price # <<>> /\ ~RLess(Zero, trades[i].profit_loss[1])}

\* C8: a closed trade is terminal: once close_trade has set a trade's exit
\* price, exit time, exit reason and P&L, no later operation, a further
\* close_trade call included, changes those fields or reopens the trade.
C8_ClosedIsTerminal ==
    [][\A i \in 1..Len(trades) :
          trades[i].exit_price # <<>> =>
              /\ i <= Len(trades')
              /\ trades'[i].exit_price = trades[i].exit_price
              /\ trades'[i].exit_time = trades[i].exit_time
              /\ trades'[i].exit_reason = trades[i].exit_reason
              /\ trades'[i].profit_loss = trades[i].profit_loss
              /\ trades'[i].profit_loss_pct = trades[i].profit_loss_pct]_vars

\* C9: open trades are excluded from every metric: the metrics of a list
\* of trades are exactly the metrics of its sublist of closed trades in the
\* same order (and the one raises exactly when the other does).
C9_OpenTradesExcluded ==
    /\ CalculateMetricsRaises(trades) <=> CalculateMetricsRaises(C_Closed)
    /\ metrics # NoneRec => metrics = CalculateMetrics(C_Closed)
C9_Witness ==
    /\ metrics # NoneRec
    /\ Len(C_Closed) = 1 /\ Len(trades) = 2
    /\ trades[1].exit_price = <<>>
    /\ metrics.total_trades = 1

\* C10: winning_trades + losing_trades = total_trades = the number of
\* closed trades; a closed trade with P&L > 0 is winning and one with
\* P&L <= 0 is losing; win_rate = winning_trades / total_trades when
\* total_trades > 0, else 0.
C10_WinLossPartition ==
    metrics # NoneRec =>
        /\ metrics.total_trades = Len(C_Closed)
        /\ metrics.winning_trades = Cardinality(C_Won)
        /\ metrics.losing_trades = Cardinality(C_Lost)
        /\ metrics.winning_trades + metrics.losing_trades = metrics.total_trades
        /\ IF metrics.total_trades > 0
           THEN metrics.win_rate[1] * metrics.total_trades
                    = metrics.winning_trades * metrics.win_rate[2]
           ELSE metrics.win_rate = Zero
C10_Witness ==
    /\ metrics # NoneRec
    /\ metrics.winning_trades = 1 /\ metrics.losing_trades = 1
    /\ \E i \in C_Lost : trades[i].profit_loss[1] = Zero

\* ------------------------------------------------ claims C11, C12
RECURSIVE C_Total(_, _)
C_Total(s, wanted) ==
    IF s = <<>> THEN Zero
    ELSE LET pl == Head(s).profit_loss[1]
         IN  IF (wanted = "won") = RLess(Zero, pl) THEN RAdd(pl, C_Total(Tail(s), wanted))
             ELSE C_Total(Tail(s), wanted)
C_GrossProfit == C_Total(C_Closed, "won")
C_GrossLoss == RAbs(C_Total(C_Closed, "lost"))

\* C11: for a list with at least one closed trade the profit factor is
\* gross profit / gross loss when the gross loss is above 0, and the infinite
\* value when the gross loss is 0, the gross profit being 0 or not; computing
\* it divides by nothing that is 0.
C11_ProfitFactor ==
    (metrics # NoneRec /\ C_Closed # <<>>) =>
        /\ metrics.gross_profit = C_GrossProfit
        /\ metrics.gross_loss = C_GrossLoss
        /\ IF RLess(Zero, C_GrossLoss)
           THEN /\ metrics.profit_factor[2] # 0
                /\ metrics.profit_factor[1] * C_GrossLoss[1] * C_GrossProfit[2]
                       = C_GrossProfit[1] * metrics.profit_factor[2] * C_GrossLoss[2]
           ELSE metrics.profit_factor = Infinity
C11_Witness ==
    /\ metrics # NoneRec /\ Len(C_Closed) = 2
    /\ C_GrossProfit = Zero /\ C_GrossLoss = Zero
    /\ metrics.profit_factor = Infinity

\* C12: the metrics of an empty list, and of a list in which every trade is
\* open, are all at their zero default (profit factor 0 included), and
\* computing them raises nothing.
C12_ZeroDefaults ==
    C_Closed = <<>> =>
        /\ ~CalculateMetricsRaises(trades)
        /\ failed # "TypeError"
        /\ metrics # NoneRec =>
              /\ metrics.total_trades = 0 /\ metrics.winning_trades = 0
              /\ metrics.losing_trades = 0
              /\ \A k \in {"win_rate", "gross_profit", "gross_loss", "net_profit",
                           "profit_factor", "total_return", "total_return_pct", "avg_win",
                           "avg_loss", "avg_win_pct", "avg_loss_pct", "max_drawdown",
                           "max_drawdown_pct", "avg_trade_duration_hours"} :
                    metrics[k] = <<0, 1>>
              /\ metrics.sharpe_ratio.sign = 0 /\ metrics.sharpe_ratio.square = <<0, 1>>
C12_Witness ==
    /\ metrics # NoneRec /\ Len(trades) = 2
    /\ \A i \in 1..Len(trades) : trades[i].exit_price = <<>>
    /\ metrics.profit_factor = <<0, 1>>

\* ------------------------------------------------ claim C13
C_One == <<1, 1>>
C_Returns == [i \in 1..Len(C_Closed) |-> C_Closed[i].profit_loss[1]]
C_Greatest(S) == CHOOSE p \in S : \A q \in S : ~RLess(p, q)
C_Equity(k) == RAdd(C_One, RSum(SubSeq(C_Returns, 1, k)))
C_Peak(k) == C_Greatest({C_One} \cup {C_Equity(j) : j \in 1..k})
C_MaxDrawdown ==
    C_Greatest({Zero} \cup {RDiv(RSub(C_Peak(k), C_Equity(k)), C_Peak(k)) :
                               k \in 1..Len(C_Returns)})
C13_IsScenario == C_Returns = << <<1, 10>>, <<-1, 20>>, <<1, 50>>, <<-1, 5>>, <<2, 25>> >>

\* C13 (as claimed): for the closed trades with P&L +0.10, -0.05, +0.02,
\* -0.20, +0.08 the maximum drawdown is the fall from the peak 1.12 to 0.896,
\* 20.0%.
C13_DrawdownTwentyPercent ==
    (metrics # NoneRec /\ C13_IsScenario) =>
        /\ metrics.max_drawdown = <<1, 5>>
        /\ metrics.max_drawdown_pct = <<20, 1>>
        /\ \E k \in 1..5 : C_Peak(k) = <<112, 100>> \/ C_Equity(k) = <<896, 1000>>

\* C13 (amended): the equity curve starts at 1 and adds each closed trade's
\* P&L; the maximum drawdown is the greatest (peak - equity) / peak along
\* it.  For the P&L +0.10, -0.05, +0.02, -0.20, +0.08 the curve is 1.10,
\* 1.05, 1.07, 0.87, 0.95: the peak is 1.10, the trough 0.87 and the maximum
\* drawdown 0.23 / 1.10 = 23/110, about 20.9%.
C13_DrawdownOfScenario ==
    metrics # NoneRec =>
        /\ metrics.max_drawdown = C_MaxDrawdown
        /\ metrics.max_drawdown_pct = RMul(C_MaxDrawdown, <<100, 1>>)
        /\ C13_IsScenario =>
              /\ C_Peak(5) = <<11, 10>> /\ C_Equity(4) = <<87, 100>>
              /\ metrics.max_drawdown = <<23, 110>>
              /\ metrics.max_drawdown_pct = <<230, 11>>
C13_Witness ==
    /\ metrics # NoneRec /\ C13_IsScenario
    /\ metrics.max_drawdown = <<23, 110>>

\* ------------------------------------------------ claims C14, C18
C_Reasons(list, reasons) ==
    Cardinality({i \in 1..Len(list) : list[i].exit_reason \in {<<r>> : r \in reasons}})
C14_AllForced ==
    /\ recommendations # <<>>
    /\ \A i \in 1..Len(recommendations) :
          /\ recommendations[i].change_24h > 10
          /\ recommendations[i].enhanced_score > 75

\* C14 (as claimed): when every candidate has the momentum and score that
\* force the win probability up, every simulated trade wins: the win rate
\* is 1.0 and no trade loses.
C14_ForcedWinsAll ==
    (metrics # NoneRec /\ C14_AllForced) =>
        /\ metrics.win_rate = <<1, 1>>
        /\ metrics.losing_trades = 0

\* C14 (amended): no momentum and no score force the win probability to
\* 1.0: it is clamped to [0.2, 0.8], and is 0.75 for a candidate with a 24h
\* change above 10 and a score above 75, so a simulated trade of any candidate
\* can lose.  The losing trades are those that ended in a (full or partial)
\* loss; the win rate is 1.0 with no losing trade when every trade ended in
\* a (full or partial) profit.
C14_WinProbabilityBelowOne ==
    metrics # NoneRec =>
        /\ \A i \in 1..Len(recommendations) :
              /\ WinProbability(recommendations[i]) \in 20..80
              /\ \E o \in Outcomes(recommendations[i], StopLossPct, TakeProfitPct) :
                    o.reason = "Stop Loss"
        /\ C14_AllForced =>
              \A i \in 1..Len(recommendations) : WinProbability(recommendations[i]) = 75
        /\ metrics.losing_trades = C_Reasons(trades, {"Stop Loss", "Partial Loss"})
        /\ metrics.winning_trades = C_Reasons(trades, {"Take Profit", "Partial Profit"})
        /\ (trades # <<>> /\ C_Reasons(trades, {"Stop Loss", "Partial Loss"}) = 0) =>
              (metrics.win_rate = <<1, 1>> /\ metrics.losing_trades = 0)
C14_Witness ==
    /\ metrics # NoneRec /\ C14_AllForced
    /\ metrics.losing_trades = Len(trades)
    /\ metrics.win_rate = Zero

C18_Inv ==
    /\ Len(results) = Len(run_trades)
    /\ Len(results) <= num_simulations
    /\ run_trades # <<>> => trades = run_trades[Len(run_trades)]
    /\ \A r \in 1..Len(results) :
          /\ Len(run_trades[r]) = Len(recommendations)
          /\ \A j \in 1..Len(run_trades[r]) :
                LET t == run_trades[r][j]
                IN  /\ t.symbol = recommendations[j].symbol
                    /\ t.entry_price = recommendations[j].price
                    /\ t.exit_price # <<>> /\ t.profit_loss # <<>>
                    /\ t.exit_time = <<t.entry_time + 24>>
          /\ results[r] = RunResult(CalculateMetrics(run_trades[r]))
          /\ results[r].net_profit
                = RSum([j \in 1..Len(run_trades[r]) |-> run_trades[r][j].profit_loss[1]])
    /\ monte_carlo_stats # NoneRec =>
          /\ num_simulations >= 1
          /\ Len(results) = num_simulations
          /\ \A r \in 1..Len(results) :
                /\ ~RLess(monte_carlo_stats.best_case_profit, results[r].net_profit)
                /\ ~RLess(results[r].net_profit, monte_carlo_stats.worst_case_profit)
          /\ \E r \in 1..Len(results) :
                monte_carlo_stats.best_case_profit = results[r].net_profit
          /\ RMul(monte_carlo_stats.mean_net_profit, <<num_simulations, 1>>)
                = RSum([r \in 1..Len(results) |-> results[r].net_profit])
          /\ RMul(monte_carlo_stats.profitable_simulations_pct, <<num_simulations, 1>>)
                = <<100 * Cardinality({r \in 1..Len(results) :
                                          RLess(Zero, results[r].net_profit)}), 1>>
C18_Step ==
    /\ recommendations' = recommendations
    /\ num_simulations' = num_simulations
    /\ Len(results') \in {Len(results), Len(results) + 1}
    /\ SubSeq(results', 1, Len(results)) = results
    /\ SubSeq(run_trades', 1, Len(run_trades)) = run_trades
    /\ monte_carlo_stats' # monte_carlo_stats => results' = results

\* C18: run_monte_carlo_simulation makes exactly num_simulations runs of
\* simulate + aggregate over the same candidate list, which no run changes;
\* each run builds a list of trades of its own, one closed trade per
\* candidate, and its result is computed from that list alone; the results of
\* earlier runs are not touched by later ones, and the summary is computed
\* once, from all num_simulations results.
C18_RunsShareNothing == []C18_Inv /\ [][C18_Step]_vars
C18_Witness ==
    /\ monte_carlo_stats # NoneRec
    /\ num_simulations = 2 /\ Len(recommendations) = 1
    /\ results[1].net_profit # results[2].net_profit
    /\ monte_carlo_stats.median_profit
          = RDiv(RAdd(results[1].net_profit, results[2].net_profit), <<2, 1>>)

\* ------------------------------ the normalizer and the indicators at work
\* Raw records with fields missing, names in several spellings, values on
\* both sides of the two thresholds, BTC rows, and price and volume changes
\* that drive every indicator to both ends of its range.
MaxRecords == 2

FullQuote(market_cap, volume_24h, h1, h24, d7, volume_change) ==
    [ price              |-> 100,
      market_cap         |-> market_cap,
      volume_24h         |-> volume_24h,
      percent_change_1h  |-> h1,
      percent_change_24h |-> h24,
      percent_change_7d  |-> d7,
      volume_change_24h  |-> volume_change ]
UsualQuote == FullQuote(120000000, 24000000, 0, 12, 0, 250)

NormCoin(name, symbol, quote) ==
    [ name |-> name, symbol |-> symbol, tags |-> {"binance-listing"},
      platform |-> Ethereum, quote |-> quote ]

NamedCoins ==
    { NormCoin(name, "ALT", UsualQuote) :
        name \in { <<"A","l","p","h","a">>, <<"D","a","i">>,
                   <<"T","E","T","H","E","R">>, <<"U","S","D","T">> } }
    \cup { [ symbol |-> "ALT", tags |-> {}, platform |-> Ethereum, quote |-> UsualQuote ] }

ThresholdCoins ==
    { NormCoin(<<"A","l","p","h","a">>, "ALT", quote) :
        quote \in { FullQuote(120000000, 0, 0, 12, 0, 250),
                    FullQuote(99999, 24000000, 0, 12, 0, 250),
                    FullQuote(100000, 24000000, 0, 12, 0, 250),
                    [ price |-> 100, market_cap |-> 120000000, percent_change_24h |-> 12 ],
                    [ price |-> 100, volume_24h |-> 24000000, percent_change_24h |-> 12 ],
                    [ market_cap |-> 120000000, volume_24h |-> 24000000 ] } }
    \cup { [ name |-> <<"A","l","p","h","a">>, symbol |-> "ALT", tags |-> {} ] }

PlatformCoins ==
    { [ name |-> <<"A","l","p","h","a">>, symbol |-> "ALT", quote |-> UsualQuote ],
      [ name |-> <<"A","l","p","h","a">>, symbol |-> "ALT", quote |-> UsualQuote,
        platform |-> NoneRec ],
      [ name |-> <<"A","l","p","h","a">>, symbol |-> "ALT", quote |-> UsualQuote,
        platform |-> [name |-> "Ethereum"] ] }

BtcCoins ==
    { NormCoin(<<"B","i","t","c","o","i","n">>, "BTC",
               FullQuote(2000000000, 300000000, 0, h24, 0, 0)) : h24 \in {4, 0, -6} }

MovingCoins ==
    { NormCoin(<<"A","l","p","h","a">>, "ALT", quote) :
        quote \in { FullQuote(120000000, 24000000, 0, 7, 0, 0),
                    FullQuote(120000000, 24000000, 0, -3, 0, 0),
                    FullQuote(120000000, 24000000, 0, -10, 0, 0),
                    FullQuote(120000000, 300000000, 4, 60, 120, 250),
                    FullQuote(120000000, 24000000, -4, -60, -25, -60),
                    FullQuote(120000000, 24000000, 4, 12, -25, -60),
                    FullQuote(1000000, 6000000, 0, 1, 0, 600) } }

NormCoins == NamedCoins \cup ThresholdCoins \cup PlatformCoins \cup BtcCoins \cup MovingCoins

NInit ==
    /\ engine \in {"legacy", "enhanced"}
    /\ \E k \in 0..MaxRecords : \E b \in [1..k -> NormCoins] : coins_data = Numbered(b)
    /\ df = IF engine = "legacy" THEN LegacyPrepareDataframe(coins_data)
            ELSE EnhancedPrepareDataframe(coins_data)
    /\ btc_data = IF engine = "legacy" THEN NoneRec ELSE EnhancedInitBtcData(df)
    /\ scored = FALSE
    /\ call = NoCall
    /\ result = <<>>
    /\ raised = FALSE

InitNormalize == NInit /\ CIdle /\ TIdle /\ MIdle /\ PIdle
NextNormalize ==
    \/ CalculateScores /\ UNCHANGED <<cvars, tvars, mvars, pvars>>
    \/ CalculateComprehensiveScores /\ UNCHANGED <<cvars, tvars, mvars, pvars>>
SpecNormalize == InitNormalize /\ [][NextNormalize]_vars

\* ------------------------------------------------------------ claim C15
C_Stablecoins == IF engine = "legacy" THEN LegacyStablecoins ELSE EnhancedStablecoins
C_Field(d, key, default) == IF key \in DOMAIN d THEN d[key] ELSE default
C_UsdQuote(coin) == C_Field(coin, "quote", <<>>)
C_Rejected(coin) ==
    \/ Lower(C_Field(coin, "name", <<>>)) \in C_Stablecoins
    \/ C_Field(C_UsdQuote(coin), "volume_24h", 0) = 0
    \/ C_Field(C_UsdQuote(coin), "market_cap", 0) < 100000
C_Kept == SelectSeq(coins_data, LAMBDA coin : ~C_Rejected(coin))
C_Numeric ==
    { "price", "market_cap", "volume_24h", "percent_change_1h", "percent_change_24h",
      "percent_change_7d", "volume_change_24h" }

\* C15: the normalizer drops a raw record exactly when its lower-cased name
\* is one of the engine's stablecoin names, or its 24h volume is 0, or its
\* market cap is below 100,000, a missing volume or market cap counting as 0;
\* the rows it keeps are the other records in input order, each numeric field
\* the record's value or 0 when missing, platform and contract address the
\* record's or the empty string when missing.
C15_NormalizerFilter ==
    /\ Len(df) = Len(C_Kept)
    /\ \A k \in 1..Len(df) :
          LET coin == C_Kept[k]
              platform == C_Field(coin, "platform", <<>>)
          IN  /\ df[k].cmc_id = coin.id
              /\ \A f \in C_Numeric : df[k][f] = C_Field(C_UsdQuote(coin), f, 0)
              /\ df[k].platform = C_Field(platform, "name", "")
              /\ df[k].contract_address = C_Field(platform, "token_address", "")
C15_Witness ==
    /\ Len(coins_data) = 2 /\ Len(df) = 1
    /\ C_Field(coins_data[1], "name", <<>>) = <<"T","E","T","H","E","R">>
    /\ "platform" \notin DOMAIN coins_data[2]
    /\ df[1].cmc_id = 2 /\ df[1].platform = "" /\ df[1].contract_address = ""
C15_WitnessDefaults ==
    /\ Len(coins_data) = 2 /\ Len(df) = 2
    /\ "price" \notin DOMAIN C_UsdQuote(coins_data[1])
    /\ df[1].price = 0 /\ df[1].percent_change_24h = 0
    /\ df[2].cmc_id = 2

\* ------------------------------------------------------------ claim C16
C_BtcRows == {i \in 1..Len(df) : df[i].symbol = "BTC"}
C_Reference == df[CHOOSE i \in C_BtcRows : \A j \in C_BtcRows : i <= j]
C_Correlation(asset_24h, btc_24h) ==
    IF btc_24h > 3 /\ 2 * asset_24h > 3 * btc_24h THEN 80
    ELSE IF -2 < btc_24h /\ btc_24h < 3 /\ asset_24h > 10 THEN 70
    ELSE IF btc_24h < -5 /\ asset_24h > 5 THEN 20
    ELSE IF btc_24h < -5 /\ asset_24h > btc_24h THEN 60
    ELSE 50

\* C16: when the batch scored by the enhanced engine has a BTC row, every
\* row's correlation score is the ladder's value for the row's 24h change
\* against the BTC row's 24h change (80, 70, 20, 60 or 50).
C16_CorrelationUsesBtcRow ==
    (engine = "enhanced" /\ scored /\ C_BtcRows # {}) =>
        \A i \in 1..Len(df) :
            df[i].market_correlation_score
                = 60 * C_Correlation(df[i].percent_change_24h,
                                     C_Reference.percent_change_24h)

\* ------------------------------------------- the calculators on their own
\* _calculate_kelly_position_size and _calculate_market_cap_risk_score are
\* pure functions of their arguments; calculate_comprehensive_scores applies
\* every calculator to one row.  Rates and returns are in thousandths.
WinRates == {-100, 0, 1, 400, 600, 999, 1000, 1100}
AvgWins == {-500, 0, 500, 1500, 3000}
AvgLosses == {-1000, 0, 500, 1000, 2000}
KellyArguments ==
    { [fn |-> "kelly", win_rate |-> w, avg_win |-> aw, avg_loss |-> al] :
        w \in WinRates, aw \in AvgWins, al \in AvgLosses }

MarketCaps ==
    { 0, 100000, 49999999, 50000000, 50000001, 249999999, 250000000, 250000001,
      1999999999, 2000000000, 2000000001, 2147483647 }
MarketCapArguments ==
    { [fn |-> "market_cap_risk", cap1 |-> c1, cap2 |-> c2] :
        c1 \in MarketCaps, c2 \in MarketCaps }

NormalizedRows ==
    { r[1] : r \in { EnhancedPrepareDataframe(Numbered(<<coin>>)) :
                          coin \in {c \in NormCoins : "name" \in DOMAIN c} } \ {<<>>} }
ScoreRowArguments == { [fn |-> "score_row", row |-> r] : r \in NormalizedRows }

\* the candidates handed to _simulate_trade_outcome: 24h changes around the
\* momentum thresholds, scores around the score thresholds under either key
\* or none, with and without the wash-trading flag
Momenta == {-11, -10, 0, 5, 6, 10, 11}
CandidateScores == {50, 60, 61, 75, 76}
ScoreKeys ==
    {<<>>} \cup {[enhanced_score |-> e] : e \in CandidateScores}
           \cup {[composite_score |-> c] : c \in CandidateScores}
           \cup {[enhanced_score |-> 50, composite_score |-> 80],
                 [enhanced_score |-> 80, composite_score |-> 50]}
WashKeys == {<<>>, [wash_trading_suspicious |-> TRUE], [wash_trading_suspicious |-> FALSE]}
WinProbabilityArguments ==
    { [fn |-> "win_probability",
       coin_data |-> [symbol |-> "ALT", price |-> 100, change_24h |-> c] @@ k @@ w] :
        c \in Momenta, k \in ScoreKeys, w \in WashKeys }

\* rows for the volume-activity calculators: volume/market-cap ratios at
\* and next to 0.05 and 0.15, volume changes at and next to each threshold
VolumeChanges == {-41, -40, 0, 10, 11, 15, 20, 21, 50, 51, 100, 101}
Volumes == {49999, 50000, 149999, 150000}
VolumeActivityArguments ==
    { [fn |-> "volume_activity",
       row |-> [market_cap |-> 1000000, volume_24h |-> v, volume_change_24h |-> vc]] :
        v \in Volumes, vc \in VolumeChanges }

\* rows for the momentum calculators: price changes at and next to each
\* threshold of the ladders
Changes1h == {-4, -3, 1, 3, 4}
Changes24h == {-11, -10, 2, 3, 5, 6, 10, 11, 20, 25}
Changes7d == {-21, -20, 0, 1, 20, 21, 50}
MomentumArguments ==
    { [fn |-> "momentum",
       row |-> [percent_change_1h |-> h1, percent_change_24h |-> h24,
                percent_change_7d |-> d7]] :
        h1 \in Changes1h, h24 \in Changes24h, d7 \in Changes7d }

\* rows for the wash-trading detector: every field at and next to each
\* threshold of the four flags
WashVolumeChanges == {200, 201, 500, 501}
WashChanges24h == {-5, -4, -2, -1, 1, 2, 4, 5}
WashChanges7d == {9, 10}
WashMarketCaps == {4999999, 5000000}
WashVolumeFactors == {<<2, 0>>, <<2, 1>>, <<5, 0>>, <<5, 1>>}
WashArguments ==
    { [fn |-> "wash_trading",
       row |-> [market_cap |-> mc, volume_24h |-> f[1] * mc + f[2],
                volume_change_24h |-> vc, percent_change_24h |-> h24,
                percent_change_7d |-> d7]] :
        mc \in WashMarketCaps, f \in WashVolumeFactors, vc \in WashVolumeChanges,
        h24 \in WashChanges24h, d7 \in WashChanges7d }

PInit ==
    /\ arguments \in KellyArguments \cup MarketCapArguments \cup ScoreRowArguments
                     \cup WinProbabilityArguments \cup VolumeActivityArguments
                     \cup MomentumArguments \cup WashArguments
    /\ returned = NoneRec

\* the win probability _simulate_trade_outcome computes for one candidate
CallWinProbability ==
    /\ arguments.fn = "win_probability"
    /\ returned = NoneRec
    /\ returned' = <<WinProbability(arguments.coin_data)>>
    /\ UNCHANGED arguments

\* _calculate_kelly_position_size(win_rate, avg_win, avg_loss)
CallKelly ==
    /\ arguments.fn = "kelly"
    /\ returned = NoneRec
    /\ returned' = <<KellyPositionSize(arguments.win_rate, arguments.avg_win,
                                       arguments.avg_loss)>>
    /\ UNCHANGED arguments

\* _calculate_market_cap_risk_score, called for two market caps
CallMarketCapRisk ==
    /\ arguments.fn = "market_cap_risk"
    /\ returned = NoneRec
    /\ returned' = <<MarketCapRiskScore(arguments.cap1), MarketCapRiskScore(arguments.cap2)>>
    /\ UNCHANGED arguments

\* the calculators of calculate_comprehensive_scores applied to one row of
\* an engine that holds no BTC reference
CallScoreRow ==
    /\ arguments.fn = "score_row"
    /\ returned = NoneRec
    /\ returned' = <<EnhancedScoreRow(arguments.row, NoneRec)>>
    /\ UNCHANGED arguments

\* _calculate_volume_activity_score of CryptoAnalyzer and of
\* EnhancedCryptoAnalyzer on one row
CallVolumeActivity ==
    /\ arguments.fn = "volume_activity"
    /\ returned = NoneRec
    /\ returned' = [legacy   |-> LegacyVolumeActivityScore(arguments.row),
                    enhanced |-> EnhancedVolumeActivityScore(arguments.row)]
    /\ UNCHANGED arguments

\* _calculate_momentum_score of CryptoAnalyzer and of EnhancedCryptoAnalyzer
\* on one row
CallMomentum ==
    /\ arguments.fn = "momentum"
    /\ returned = NoneRec
    /\ returned' = [legacy   |-> LegacyMomentumScore(arguments.row),
                    enhanced |-> EnhancedMomentumScore(arguments.row)]
    /\ UNCHANGED arguments

\* _detect_wash_trading on one row
CallDetectWashTrading ==
    /\ arguments.fn = "wash_trading"
    /\ returned = NoneRec
    /\ returned' = DetectWashTrading(arguments.row)
    /\ UNCHANGED arguments

InitCalculators == AIdle /\ CIdle /\ TIdle /\ MIdle /\ PInit
NextCalculators ==
    \/ CallKelly /\ UNCHANGED <<avars, cvars, tvars, mvars>>
    \/ CallMarketCapRisk /\ UNCHANGED <<avars, cvars, tvars, mvars>>
    \/ CallScoreRow /\ UNCHANGED <<avars, cvars, tvars, mvars>>
    \/ CallWinProbability /\ UNCHANGED <<avars, cvars, tvars, mvars>>
    \/ CallVolumeActivity /\ UNCHANGED <<avars, cvars, tvars, mvars>>
    \/ CallMomentum /\ UNCHANGED <<avars, cvars, tvars, mvars>>
    \/ CallDetectWashTrading /\ UNCHANGED <<avars, cvars, tvars, mvars>>
SpecCalculators == InitCalculators /\ [][NextCalculators]_vars

\* ------------------------------------------------------ claims C17, C19
C_Called(fn) == arguments # NoneRec /\ returned # NoneRec /\ arguments.fn = fn

\* C17: the Kelly calculator returns 0 when the win rate is <= 0 or >= 1 or
\* either average is <= 0; otherwise max(0, min(fullKelly / 2, 0.075)) with
\* fullKelly = (winRate * avgWin - (1 - winRate) * avgLoss) / avgWin (the
\* returned thousandths are that value rounded down); the position size of a
\* scored row lies in [0, 0.10].
C17_KellyPositionSize ==
    /\ C_Called("kelly") =>
          LET w == arguments.win_rate
              aw == arguments.avg_win
              al == arguments.avg_loss
              size == returned[1]
              num == w * aw - (1000 - w) * al
              den == 2 * aw
          IN  /\ size \in 0..100
              /\ (w <= 0 \/ w >= 1000 \/ aw <= 0 \/ al <= 0) => size = 0
              /\ (0 < w /\ w < 1000 /\ aw > 0 /\ al > 0) =>
                    /\ num <= 0 => size = 0
                    /\ num >= 75 * den => size = 75
                    /\ (0 < num /\ num < 75 * den) =>
                          (den * size <= num /\ num < den * (size + 1))
    /\ C_Called("score_row") => returned[1].kelly_position_size \in 0..100
C17_Witness ==
    /\ C_Called("kelly")
    /\ arguments.win_rate = 600 /\ arguments.avg_win = 1500 /\ arguments.avg_loss = 2000
    /\ returned = <<33>>
C17_WitnessRow == C_Called("score_row") /\ returned[1].kelly_position_size = 75

C_Tier(cap) ==
    IF cap < 50000000 THEN 100 ELSE IF cap < 250000000 THEN 70
    ELSE IF cap < 2000000000 THEN 40 ELSE 10

\* C19: the market-cap risk score is 100 below 50M, 70 below 250M, 40 below
\* 2B and 10 from there on, and of two market caps the larger never has the
\* higher score.
C19_MarketCapRiskSteps ==
    C_Called("market_cap_risk") =>
        /\ returned[1] = 60 * C_Tier(arguments.cap1)
        /\ returned[2] = 60 * C_Tier(arguments.cap2)
        /\ returned[1] \in {60 * 100, 60 * 70, 60 * 40, 60 * 10}
        /\ arguments.cap1 <= arguments.cap2 => returned[1] >= returned[2]
C19_Witness ==
    /\ C_Called("market_cap_risk")
    /\ arguments.cap1 = 49999999 /\ arguments.cap2 = 50000000
    /\ returned = <<60 * 100, 60 * 70>>

\* ------------------------------------------------------------ claim C20
C_LegacyClamped ==
    {"unusual_volume_score", "momentum_score", "trend_strength_score", "rsi_like_score"}
C_EnhancedClamped ==
    {"rsi_score", "macd_score", "bollinger_score", "market_correlation_score",
     "momentum_score"}
C_InRange(x, low, high) == low <= x /\ x <= high

\* C20: every scored row has its unusual-volume, momentum, trend-strength,
\* RSI-like, RSI, MACD, Bollinger and correlation scores in [0, 100], its
\* volume-activity score in [0, 150] and its wash-trading confidence in
\* [0, 100].
C20_IndicatorsInRange ==
    scored =>
        \A i \in 1..Len(df) :
            /\ C_InRange(df[i].volume_activity_score, 0, 60 * 150)
            /\ engine = "legacy" =>
                  \A f \in C_LegacyClamped : C_InRange(df[i][f], 0, 60 * 100)
            /\ engine = "enhanced" =>
                  /\ \A f \in C_EnhancedClamped : C_InRange(df[i][f], 0, 60 * 100)
                  /\ C_InRange(df[i].wash_trading_confidence, 0, 100)
C20_Witness ==
    /\ scored /\ engine = "enhanced" /\ Len(df) = 2
    /\ df[1].volume_change_24h = 600 /\ df[1].volume_24h > 5 * df[1].market_cap
    /\ df[1].wash_trading_confidence = 100
    /\ df[1].volume_activity_score = 60 * 150
    /\ df[2].percent_change_24h = -60 /\ df[2].momentum_score = 0
C20_WitnessLegacy ==
    /\ scored /\ engine = "legacy" /\ Len(df) = 2
    /\ df[1].volume_change_24h = -60 /\ df[1].percent_change_24h = 12
    /\ df[1].unusual_volume_score = 0
    /\ df[2].percent_change_24h = 60 /\ df[2].momentum_score = 60 * 100
    /\ df[2].volume_activity_score = 60 * 150

\* ------------------------------------------------------------ claim C21
C_EquityOf(r, k) == RAdd(<<1, 1>>, RSum(SubSeq(r, 1, k)))
C_PeakOf(r, k) == C_Greatest({<<1, 1>>} \cup {C_EquityOf(r, j) : j \in 1..k})
C_DrawdownAt(r, k) == RDiv(RSub(C_PeakOf(r, k), C_EquityOf(r, k)), C_PeakOf(r, k))
C_MaxDrawdownOf(r) == C_Greatest({Zero} \cup {C_DrawdownAt(r, k) : k \in 1..Len(r)})
C_Reversed(r) == [i \in 1..Len(r) |-> r[Len(r) + 1 - i]]

\* C21: the maximum drawdown is the greatest (peak - equity) / peak met on
\* the walk over the closed trades in list order, the equity starting at 1
\* and gaining each trade's P&L, the peak being the highest equity so far
\* (never below 1, never decreasing); max_drawdown_pct is 100 times it.
C21_DrawdownIsOrderedWalk ==
    metrics # NoneRec =>
        /\ metrics.max_drawdown = C_MaxDrawdownOf(C_Returns)
        /\ metrics.max_drawdown_pct = RMul(metrics.max_drawdown, <<100, 1>>)
        /\ ~RLess(metrics.max_drawdown, Zero)
        /\ \A k \in 1..Len(C_Returns) :
              /\ ~RLess(C_PeakOf(C_Returns, k), C_PeakOf(C_Returns, k - 1))
              /\ ~RLess(metrics.max_drawdown, C_DrawdownAt(C_Returns, k))
C21_Witness ==
    /\ metrics # NoneRec
    /\ C_Returns = << <<1, 10>>, <<-1, 5>> >>
    /\ metrics.max_drawdown = <<2, 11>>
    /\ C_MaxDrawdownOf(C_Reversed(C_Returns)) = <<1, 5>>

\* ------------------------------------------------------------ claim C22
C_AllEqual(r) == \A i, j \in 1..Len(r) : r[i] = r[j]

\* C22: the Sharpe ratio is 0 when fewer than 2 trades are closed, and when
\* the closed trades all have the same P&L (their standard deviation is 0).
C22_SharpeZeroWithoutDeviation ==
    (metrics # NoneRec /\ (Len(C_Closed) < 2 \/ C_AllEqual(C_Returns))) =>
        /\ metrics.sharpe_ratio.sign = 0
        /\ metrics.sharpe_ratio = [sign |-> 0, square |-> <<0, 1>>]

\* --------------------------------- simulate_recommendation_strategy with
\* the caller's percentages: stop losses below and above the 2 % where the
\* partial losses start, take profits below and above the 5 % where the
\* partial gains start
StopLossPcts == {1, 10}
TakeProfitPcts == {3, 20}
StrategyArguments ==
    { [fn |-> "simulate_recommendation_strategy", hold_period_hours |-> HoldPeriodHours,
       stop_loss_pct |-> sl, take_profit_pct |-> tp] :
        sl \in StopLossPcts, tp \in TakeProfitPcts }
StrategyInit ==
    /\ trades = <<>> /\ metrics = NoneRec /\ failed = ""
    /\ \E k \in 0..MaxCandidates : recommendations \in [1..k -> Candidates]
    /\ arguments \in StrategyArguments
    /\ returned = NoneRec

\* simulate_recommendation_strategy(recommendations, hold_period_hours,
\* stop_loss_pct, take_profit_pct): one trade per candidate, closed at the
\* outcome drawn for it; the BacktestResult it returns is `metrics`
SimulateStrategy ==
    /\ metrics = NoneRec /\ failed = ""
    /\ arguments # NoneRec /\ arguments.fn = "simulate_recommendation_strategy"
    /\ \E outcomes \in [1..Len(recommendations) ->
                          UNION {Outcomes(c, arguments.stop_loss_pct, arguments.take_profit_pct) :
                                    c \in Candidates}] :
          /\ \A i \in 1..Len(recommendations) :
                outcomes[i] \in Outcomes(recommendations[i], arguments.stop_loss_pct,
                                         arguments.take_profit_pct)
          /\ trades' = FreshTrades(trades)
                        \o [i \in 1..Len(recommendations) |->
                              SimulatedTrade(recommendations[i], 0, arguments.hold_period_hours,
                                             arguments.stop_loss_pct,
                                             arguments.take_profit_pct, outcomes[i])]
          /\ metrics' = CalculateMetrics(trades')
    /\ UNCHANGED <<recommendations, failed, arguments, returned>>

InitStrategy == AIdle /\ CIdle /\ StrategyInit /\ MIdle
NextStrategy == SimulateStrategy /\ UNCHANGED <<avars, cvars, mvars>>
SpecStrategy == InitStrategy /\ [][NextStrategy]_vars

\* ---------------------------- the enhanced analyzer feeding the backtester
\* (enhanced_crypto_advisor.py: the list a ranking query returns is handed to
\* simulate_recommendation_strategy).  The raw records: a calm coin with and
\* without a price in its quote, and one coin for each way the wash-trading
\* flags fire: flag 3 alone, flag 1 alone, flag 2 alone, flags 2 and 4.
PipelineCoin(symbol, quote) ==
    [ name |-> <<"A","l","p","h","a">>, symbol |-> symbol, tags |-> {"binance-listing"},
      platform |-> NoneRec, quote |-> quote ]
PipelineQuote(market_cap, volume_24h, volume_change, change_24h, change_7d) ==
    [ market_cap |-> market_cap, volume_24h |-> volume_24h,
      percent_change_1h |-> 0, percent_change_24h |-> change_24h,
      percent_change_7d |-> change_7d, volume_change_24h |-> volume_change ]
PipelineCoins ==
    { PipelineCoin("CALM", [price |-> 100] @@ PipelineQuote(120000000, 24000000, 0, 12, 0)),
      PipelineCoin("FREE", PipelineQuote(120000000, 24000000, 0, 12, 0)),
      PipelineCoin("SPIKE", [price |-> 100] @@ PipelineQuote(120000000, 24000000, 250, 1, 0)),
      PipelineCoin("BURST", [price |-> 100] @@ PipelineQuote(120000000, 24000000, 600, 1, 15)),
      PipelineCoin("CHURN", [price |-> 100] @@ PipelineQuote(120000000, 300000000, 0, 12, 0)),
      PipelineCoin("MICRO", [price |-> 100] @@ PipelineQuote(4000000, 21000000, 0, 12, 0)) }

PipelineInit ==
    /\ engine = "enhanced"
    /\ \E k \in 0..MaxBatch : \E b \in [1..k -> PipelineCoins] : coins_data = Numbered(b)
    /\ df = EnhancedPrepareDataframe(coins_data)
    /\ btc_data = EnhancedInitBtcData(df)
    /\ scored = FALSE
    /\ call = NoCall
    /\ result = <<>>
    /\ raised = FALSE

\* the coin_data of a returned row as _simulate_trade_outcome reads it: the
\* score in whole points, rounded up, which keeps `> 75` and `> 60` as they
\* are
CandidateOf(coin_info) ==
    [ symbol |-> coin_info.symbol,
      price |-> coin_info.price,
      change_24h |-> coin_info.change_24h,
      enhanced_score |-> (coin_info.enhanced_score + 5999999) \div 6000000,
      wash_trading_suspicious |-> coin_info.wash_trading_suspicious,
      kelly_position_size |-> coin_info.kelly_position_size ]

\* simulate_recommendation_strategy(top_coins, 24, 0.10, 0.20) on the list a
\* query returned: close_trade divides by the entry price, so the loop ends
\* in ZeroDivisionError at the first candidate priced 0, before self.trades
\* is assigned and before a BacktestResult exists
SimulateResult ==
    /\ call # NoCall /\ ~raised
    /\ arguments = NoneRec /\ metrics = NoneRec /\ failed = ""
    /\ arguments' = [fn |-> "simulate_recommendation_strategy",
                     hold_period_hours |-> HoldPeriodHours,
                     stop_loss_pct |-> StopLossPct, take_profit_pct |-> TakeProfitPct]
    /\ recommendations' = [i \in 1..Len(result) |-> CandidateOf(result[i])]
    /\ IF \E i \in 1..Len(result) : result[i].price = 0
       THEN failed' = "ZeroDivisionError" /\ UNCHANGED <<trades, metrics>>
       ELSE /\ failed' = ""
            /\ \E outcomes \in [1..Len(result) ->
                      UNION {McOutcomes(CandidateOf(result[i]), StopLossPct, TakeProfitPct) :
                                i \in 1..Len(result)}] :
                  /\ \A i \in 1..Len(result) :
                        outcomes[i] \in McOutcomes(recommendations'[i], StopLossPct,
                                                   TakeProfitPct)
                  /\ trades' = StrategyTrades(trades, recommendations', outcomes)
                  /\ metrics' = CalculateMetrics(trades')
    /\ UNCHANGED returned

InitPipeline == PipelineInit /\ CIdle /\ TIdle /\ MIdle /\ PIdle
NextPipeline ==
    \/ CalculateComprehensiveScores /\ UNCHANGED <<cvars, tvars, mvars, pvars>>
    \/ TopByCategory /\ UNCHANGED <<cvars, tvars, mvars, pvars>>
    \/ TopSafeRecommendations /\ UNCHANGED <<cvars, tvars, mvars, pvars>>
    \/ SimulateResult /\ UNCHANGED <<avars, cvars, mvars>>
SpecPipeline == InitPipeline /\ [][NextPipeline]_vars

\* ------------------------------------------------------------ claim C23
C_Momentum(c) == IF c > 10 THEN 15 ELSE IF c > 5 THEN 10 ELSE IF c < -10 THEN -15 ELSE 0
C_ScoreOf(d) ==
    IF "enhanced_score" \in DOMAIN d THEN d.enhanced_score
    ELSE IF "composite_score" \in DOMAIN d THEN d.composite_score ELSE 50
C_ScoreBonus(x) == IF x > 75 THEN 10 ELSE IF x > 60 THEN 5 ELSE 0
C_Wash(d) == IF "wash_trading_suspicious" \in DOMAIN d /\ d.wash_trading_suspicious THEN 20 ELSE 0
C_Clamp(x, lo, hi) == IF x < lo THEN lo ELSE IF x > hi THEN hi ELSE x

\* C23: the win probability of a candidate is clamp(0.5 + m + s - w, 0.2,
\* 0.8) (here in hundredths), m = +0.15 if 24h > 10, else +0.10 if 24h > 5,
\* else -0.15 if 24h < -10, else 0; s = +0.10 if the score is above 75, else
\* +0.05 if above 60 (the enhanced score, else the composite score, else 50);
\* w = 0.20 for a wash-trading suspect; it always lies within [0.2, 0.8].
C23_WinProbabilityFormula ==
    C_Called("win_probability") =>
        LET d == arguments.coin_data
        IN  /\ returned[1] = C_Clamp(50 + C_Momentum(d.change_24h) + C_ScoreBonus(C_ScoreOf(d))
                                        - C_Wash(d), 20, 80)
            /\ returned[1] \in 20..80
C23_Witness ==
    /\ C_Called("win_probability")
    /\ arguments.coin_data.change_24h = -11
    /\ "enhanced_score" \notin DOMAIN arguments.coin_data
    /\ "composite_score" \in DOMAIN arguments.coin_data
    /\ arguments.coin_data.composite_score = 61
    /\ C_Wash(arguments.coin_data) = 20
    /\ returned[1] = 20

\* ------------------------------------------------------------ claim C24
\* 60 x min(base x multiplier, 150) with the multipliers 2.0, 1.6, 1.3, 0.6
\* and 1
C_VolumeActivity(row) ==
    LET base == IF 100 * row.volume_24h >= 15 * row.market_cap THEN 100
                ELSE IF 100 * row.volume_24h >= 5 * row.market_cap THEN 60 ELSE 30
        vc == row.volume_change_24h
        tenths == IF vc > 100 THEN 20 ELSE IF vc > 50 THEN 16 ELSE IF vc > 20 THEN 13
                  ELSE IF vc < -40 THEN 6 ELSE 10
    IN  IF base * tenths > 1500 THEN 150 * 60 ELSE base * tenths * 6

\* C24: in both engines the volume-activity score is min(base x multiplier,
\* 150), base 100 / 60 / 30 for a volume/market-cap ratio >= 0.15 / >= 0.05 /
\* otherwise, multiplier 2.0 / 1.6 / 1.3 for a volume change above 100 / 50 /
\* 20, 0.6 below -40 and exactly 1 otherwise, also for a change in (10, 20].
C24_VolumeActivityBothEngines ==
    C_Called("volume_activity") =>
        /\ returned.legacy = C_VolumeActivity(arguments.row)
        /\ returned.enhanced = C_VolumeActivity(arguments.row)

\* ------------------------------------------------------------ claim C25
\* 60 x the momentum ladder as stated
C_MomentumLadder(row) ==
    LET h1 == row.percent_change_1h
        h24 == row.percent_change_24h
        d7 == row.percent_change_7d
        first == IF h1 > 3 /\ h24 > 5 THEN 15 ELSE IF h1 < -3 /\ h24 > 10 THEN 10 ELSE 0
        second == IF h24 > 20 THEN 50 ELSE IF h24 > 10 THEN 40 ELSE IF h24 > 5 THEN 25
                  ELSE IF h24 > 2 THEN 10 ELSE IF h24 < -10 THEN -40 ELSE 0
        third == IF d7 > 20 /\ h24 > 5 THEN 35 ELSE IF d7 > 0 /\ h24 > 10 THEN 20
                 ELSE IF d7 < -20 THEN -30 ELSE 0
    IN  60 * C_Clamp(first + second + third, 0, 100)

\* C25: the momentum score of both engines follows the ladder: +15 if 1h > 3
\* and 24h > 5, else +10 if 1h < -3 and 24h > 10; the first of +50 / +40 /
\* +25 / +10 for 24h > 20 / 10 / 5 / 2, or -40 if 24h < -10; +35 if 7d > 20
\* and 24h > 5, else +20 if 7d > 0 and 24h > 10, else -30 if 7d < -20;
\* clamped to [0, 100]; the row 24h = 25, 7d = 50, 1h = 1 scores 85.
C25_MomentumLadderBothEngines ==
    C_Called("momentum") =>
        /\ returned.legacy = C_MomentumLadder(arguments.row)
        /\ returned.enhanced = C_MomentumLadder(arguments.row)
        /\ (arguments.row = [percent_change_1h |-> 1, percent_change_24h |-> 25,
                             percent_change_7d |-> 50]) =>
              (returned.legacy = 85 * 60 /\ returned.enhanced = 85 * 60)

\* ------------------------------------------------------------ claim C26
C_Magnitude(x) == IF x < 0 THEN -x ELSE x
C_Flag1(row) == row.volume_change_24h > 500 /\ C_Magnitude(row.percent_change_24h) < 2
C_Flag2(row) == row.volume_24h > 2 * row.market_cap
C_Flag3(row) ==
    /\ row.volume_change_24h > 200
    /\ C_Magnitude(row.percent_change_24h) < 5
    /\ row.percent_change_7d < 10
C_Flag4(row) == row.market_cap < 5000000 /\ row.volume_24h > 5 * row.market_cap
C_Weight(flag, weight) == IF flag THEN weight ELSE 0
C_Confidence(row) ==
    C_Clamp(C_Weight(C_Flag1(row), 40) + C_Weight(C_Flag2(row), 30)
            + C_Weight(C_Flag3(row), 20) + C_Weight(C_Flag4(row), 30), 0, 100)

C_Wins == {"Take Profit", "Partial Profit"}
C_Losses == {"Stop Loss", "Partial Loss"}
C_Simulated == metrics # NoneRec /\ arguments # NoneRec /\ trades # <<>>

\* C27: every trade returned by the simulation with an entry price above 0,
\* a stop-loss percentage between 0 and 1 and a take-profit percentage above
\* 0 (also below 0.05, and the stop loss below 0.02) exits between its own
\* stop-loss and take-profit prices; a winning outcome exits above the entry
\* price and a losing outcome below it.
C27_ExitWithinLevels ==
    C_Simulated =>
        \A i \in 1..Len(trades) :
            LET t == trades[i]
            IN  (t.entry_price > 0 /\ arguments.stop_loss_pct \in 1..99
                 /\ arguments.take_profit_pct > 0) =>
                    /\ t.stop_loss <= t.exit_price[1]
                    /\ t.exit_price[1] <= t.take_profit
                    /\ t.exit_reason[1] \in C_Wins => t.exit_price[1] > t.entry_price
                    /\ t.exit_reason[1] \in C_Losses => t.exit_price[1] < t.entry_price

\* ------------------------------------------------------------ claim C28
C_Reason4 == {"Take Profit", "Partial Profit", "Stop Loss", "Partial Loss"}
C_SimulatedResult ==
    /\ call # NoCall
    /\ arguments # NoneRec /\ arguments.fn = "simulate_recommendation_strategy"

\* C28: on every candidate list a ranking query returns over a normalized,
\* scored batch (also with rows whose missing price defaulted to 0) the
\* simulation does not raise and returns one trade per candidate, in the
\* candidates' order, each closed at entry time + holdHours with a reason in
\* {Take Profit, Partial Profit, Stop Loss, Partial Loss}.
C28_SimulateNeverRaises ==
    C_SimulatedResult =>
        /\ failed = ""
        /\ metrics # NoneRec
        /\ Len(trades) = Len(result)
        /\ \A i \in 1..Len(trades) :
              /\ trades[i].symbol = result[i].symbol
              /\ trades[i].exit_price # <<>>
              /\ trades[i].exit_time = <<trades[i].entry_time + arguments.hold_period_hours>>
              /\ trades[i].exit_reason # <<>> /\ trades[i].exit_reason[1] \in C_Reason4

\* ------------------------------------------------------------ claim C29
C_DroppedForCap ==
    \E i \in 1..Len(coins_data) :
        /\ C_UsdQuote(coins_data[i]) # <<>>
        /\ C_Field(C_UsdQuote(coins_data[i]), "volume_24h", 0) # 0
        /\ C_Field(C_UsdQuote(coins_data[i]), "market_cap", 0) = 0

\* C29: every row that reaches the indicator calculators has passed the
\* normalizer: its market cap is at least 100,000 and its 24h volume is not
\* 0, so the volume / market-cap ratio of the wash-trading detector and of
\* the volume-activity score never divides by zero, whatever the raw batch.
C29_NoDivisionByZero ==
    /\ \A i \in 1..Len(df) :
          /\ df[i].market_cap >= 100000
          /\ df[i].volume_24h # 0
          /\ ~DetectWashTradingRaises(df[i])
    /\ ~raised
C29_Witness ==
    /\ engine = "enhanced" /\ scored /\ ~raised
    /\ C_DroppedForCap
    /\ Len(df) = 1
    /\ df[1].market_cap = 100000
    /\ df[1].wash_trading_suspicious

\* ------------------------------------------------------------ claim C30
C_AsRow(info) ==
    [ market_cap |-> info.market_cap, volume_24h |-> info.volume_24h,
      volume_change_24h |-> info.volume_change_24h,
      percent_change_24h |-> info.change_24h, percent_change_7d |-> info.change_7d ]
C_Answered == call # NoCall /\ ~raised

\* C30: a wash-trading-suspicious row is returned by the category ranking or
\* by get_top_safe_recommendations only with confidence exactly 20, that is
\* when flag 3 fired alone; a row on which flag 1, 2 or 4 fired is never
\* returned; flag 4 never fires without flag 2, so a row with flag 4 has a
\* confidence of at least 60.
C30_OnlyMinorSuspicionReturned ==
    /\ C_Answered =>
          \A i \in 1..Len(result) :
              LET row == C_AsRow(result[i])
              IN  /\ ~C_Flag1(row) /\ ~C_Flag2(row) /\ ~C_Flag4(row)
                  /\ result[i].wash_trading_suspicious =>
                        (result[i].wash_trading_confidence = 20 /\ C_Flag3(row))
    /\ scored =>
          \A i \in 1..Len(df) :
              C_Flag4(df[i]) => (C_Flag2(df[i]) /\ df[i].wash_trading_confidence >= 60)
    /\ \A a \in WashArguments :
          C_Flag4(a.row) => (C_Flag2(a.row) /\ DetectWashTrading(a.row)[2] >= 60)
C30_Witness ==
    /\ C_Answered
    /\ Len(df) = 2 /\ Len(result) = 1
    /\ result[1].wash_trading_suspicious /\ result[1].wash_trading_confidence = 20
    /\ \E i \in 1..2 : C_Flag4(df[i]) /\ df[i].wash_trading_confidence = 60
    /\ call.op = "get_top_by_category" /\ call.n = 2

====